---- MODULE Spec2Model ----
(***************************************************************************)
(* syodokai-meihyo (src/kaisetu.py, mirrored by src/meihyo.py): the        *)
(* per-character vertical and horizontal layout functions, the wrap-count  *)
(* function and the anchor it selects, the full-width conversion, the      *)
(* preprocessing of the table and the paging of the combined document,     *)
(* run one call at a time on a recording canvas.                           *)
(*                                                                         *)
(* Units.  Every length is an integer number of hundredths of a point, so  *)
(* that the source's 4.5, 2.75 and font_size / 4 are exact: 10 pt is 1000. *)
(* A factor such as char_spacing is in hundredths too (1.0 is 100) and     *)
(* Mul is the fixed-point product.                                         *)
(*                                                                         *)
(* Characters.  A character is a string: a printable ASCII character is    *)
(* itself, "\n" is the line break, and any other character is named by its *)
(* code point ("U+3002" is the ideographic full stop).                     *)
(***************************************************************************)
EXTENDS Integers, Sequences, FiniteSets, TLC

VARIABLES
    args,        \* the call: the function's name and its arguments
    pc,          \* position in the function: "enter", "loop", "name", "furigana",
                 \* "draw", "katakana", the steps of preprocess_data, "done"
    i,           \* number of characters the running loop has consumed
    current_x,   \* draw_vertical_text_with_wrap: current_x
    current_y,   \* running vertical position (current_y)
    char_count,  \* characters placed in the current column (char_count)
    col,         \* history: how many times current_x -= line_spacing has run
    n_lines,     \* calculate_wrap_count: its counter `lines`
    lines,       \* horizontal wrapping: the list `lines`
    start,       \* horizontal wrapping: start
    canvas,      \* the drawString calls made so far, in order
    ret,         \* the value returned
    code,        \* the operators written to the page so far (canvas._code)
    data,        \* preprocess_data: the table `data`
    run          \* preprocess_data: how many times it has run on the table

vars == <<args, pc, i, current_x, current_y, char_count, col, n_lines, lines, start,
          canvas, ret, code, data, run>>

-----------------------------------------------------------------------------
(* Bounds of the model. *)

\* longest text handed to a layout function
MaxLen == 4
\* largest wrap width (max_chars / max_chars_per_line) tried
MaxChars == 2

\* The characters texts are made of: U+6F22 (a kanji: in no table), U+3002
\* (full stop: line-leading-prohibited, not rotated), ")" (prohibited and
\* rotated), U+300C (opening bracket: rotated, with an 'angle' entry in
\* WORK_INFO_ADJUSTMENTS) and the line break.
Chars == { "U+6F22", "U+3002", ")", "U+300C", "\n" }

SeqsUpTo(S, n) == UNION { [1..k -> S] : k \in 0..n }

Texts == SeqsUpTo(Chars, MaxLen)

\* The characters of the texts whose columns are only counted: a regular
\* character, a line-leading-prohibited one and the line break.
WrapChars == { "U+6F22", "U+3002", "\n" }

WrapTexts == SeqsUpTo(WrapChars, MaxLen)

\* The characters of the texts laid out in lines: a full-width character, ")"
\* (half-width and line-leading-prohibited) and the line break.
LineChars == { "U+6F22", ")", "\n" }

LineTexts == SeqsUpTo(LineChars, MaxLen)

\* longest name and longest furigana handed to draw_name_and_furigana, and
\* longest text laid out with a table that overrides angles
MaxNameLen == 2

\* the characters furigana are made of
FuriganaChars == { "U+6F22", ")" }

-----------------------------------------------------------------------------
(* Constants and tables of the source. *)

LEADING_PROHIBITED_CHARS ==
    { "U+3002", "U+3001", "U+300D", "U+300F", ")", "U+FF09", "]", "}" }

HANGING_PUNCTUATION_ADJUSTMENTS ==
    ("U+3002" :> [x_offset |-> 800, y_offset |-> -200]) @@
    ("U+3001" :> [x_offset |-> 800, y_offset |-> -200]) @@
    ("U+300D" :> [x_offset |-> 300, y_offset |-> -500]) @@
    ("U+300F" :> [x_offset |-> 200, y_offset |-> -500]) @@
    (")"      :> [x_offset |-> 200, y_offset |-> -500]) @@
    ("U+FF09" :> [x_offset |-> 400, y_offset |-> 0]) @@
    ("]"      :> [x_offset |-> 400, y_offset |-> 0]) @@
    ("}"      :> [x_offset |-> 400, y_offset |-> 0])

\* The adjustment tables, restricted to the characters of Chars (the source
\* tables hold up to 145 entries of the same shape).
PUNCTUATION_ADJUSTMENTS ==
    ("U+3002" :> [x_offset |-> 700, y_offset |-> 500]) @@
    (")"      :> [x_offset |-> 450, y_offset |-> 300]) @@
    ("U+300C" :> [x_offset |-> 500, y_offset |-> 1200])

WORK_NAME_ADJUSTMENTS ==
    ("U+3002" :> [x_offset |-> 500, y_offset |-> 300]) @@
    (")"      :> [x_offset |-> 950, y_offset |-> 200]) @@
    ("U+300C" :> [x_offset |-> 0, y_offset |-> 0])

\* WORK_NAME_ADJUSTMENTS.copy() updated with the two bracket entries: @@ keeps
\* the left table's entry where both have one.
WORK_INFO_ADJUSTMENTS ==
    ("U+300C" :> [x_offset |-> 1000, y_offset |-> 1400, angle |-> 270]) @@
    WORK_NAME_ADJUSTMENTS

NAME_ADJUSTMENTS ==
    ("U+3002" :> [x_offset |-> 400, y_offset |-> 200]) @@
    (")"      :> [x_offset |-> 850, y_offset |-> 100])

DEPARTMENT_YEAR_ADJUSTMENTS ==
    ("U+3002" :> [x_offset |-> 600, y_offset |-> 400])

ROTATED_CHARS ==
    { "!", "(", ")", "-", "A", "B", "C", "D", "E", "F", "G", "H", "I", "J", "K", "L", "M",
      "N", "O", "P", "Q", "R", "S", "T", "U", "V", "W", "X", "Y", "Z", "[", "]", "a", "b",
      "c", "d", "e", "f", "g", "h", "i", "j", "k", "l", "m", "n", "o", "p", "q", "r", "s",
      "t", "u", "v", "w", "x", "y", "z", "{", "}", "U+2190", "U+2191", "U+2192", "U+2193",
      "U+3008", "U+3009", "U+300C", "U+300D", "U+300E", "U+300F", "U+30FC", "U+FF08",
      "U+FF09", "U+FF1C", "U+FF1E", "U+FF21", "U+FF22", "U+FF23", "U+FF24", "U+FF25",
      "U+FF26", "U+FF27", "U+FF28", "U+FF29", "U+FF2A", "U+FF2B", "U+FF2C", "U+FF2D",
      "U+FF2E", "U+FF2F", "U+FF30", "U+FF31", "U+FF32", "U+FF33", "U+FF34", "U+FF35",
      "U+FF36", "U+FF37", "U+FF38", "U+FF39", "U+FF3A", "U+FF41", "U+FF42", "U+FF43",
      "U+FF44", "U+FF45", "U+FF46", "U+FF47", "U+FF48", "U+FF49", "U+FF4A", "U+FF4B",
      "U+FF4C", "U+FF4D", "U+FF4E", "U+FF4F", "U+FF50", "U+FF51", "U+FF52", "U+FF53",
      "U+FF54", "U+FF55", "U+FF56", "U+FF57", "U+FF58", "U+FF59", "U+FF5A", "U+FF5E" }

\* The layout table: the fields 学部学年 (gakubu_gakunen), 名前 (namae), 作品情報
\* (sakuhin_joho), 釈文 (syakubun), コメント (komento), 臨書解説 (rinsyo_kaisetu,
\* horizontal) and 作品情報（法帖解説） (sakuhin_joho_hojo, horizontal and centered).  'x' of a
\* wrap-dependent field is the list of candidate anchors.
COORDINATES ==
    [ gakubu_gakunen |->
        [ x |-> 25000, y |-> 78000, font_size |-> 1800, char_spacing |-> 100,
          adjustments |-> "DEPARTMENT_YEAR_ADJUSTMENTS" ],
      namae |->
        [ x |-> 25000, y |-> 49500, name_font_size |-> 1800,
          furigana_font_size |-> 1300, furigana_x_offset |-> 275,
          furigana_y_spacing |-> 50, char_spacing |-> 100,
          adjustments |-> "NAME_ADJUSTMENTS" ],
      sakuhin_joho |->
        [ x |-> 20600, y |-> 78000, font_size |-> 1800, char_spacing |-> 100,
          adjustments |-> "WORK_INFO_ADJUSTMENTS" ],
      syakubun |->
        [ x |-> <<15200, 16200, 17200>>, y |-> 78600, font_size |-> 1000,
          char_spacing |-> 100, max_chars |-> 55, line_spacing |-> 2000,
          adjustments |-> "PUNCTUATION_ADJUSTMENTS" ],
      komento |->
        [ x |-> <<7000, 8000, 8500, 9500, 10500>>, y |-> 78600, font_size |-> 1000,
          char_spacing |-> 100, max_chars |-> 55, line_spacing |-> 2000,
          adjustments |-> "PUNCTUATION_ADJUSTMENTS" ],
      rinsyo_kaisetu |->
        [ x |-> 2500, y |-> 17000, font_size |-> 1000, char_spacing |-> 100,
          max_chars |-> 25, line_spacing |-> 3000,
          adjustments |-> "PUNCTUATION_ADJUSTMENTS" ],
      sakuhin_joho_hojo |->
        [ x |-> 15000, y |-> 19000, font_size |-> 1400, char_spacing |-> 100,
          max_chars |-> 25, line_spacing |-> 3000,
          adjustments |-> "WORK_NAME_ADJUSTMENTS" ] ]

\* `USE_BOLD`: emulated bold is on
USE_BOLD == TRUE

\* `BOLD_WIDTH_RATIO = 0.03`, in hundredths
BOLD_WIDTH_RATIO == 3

\* The characters drawn in a substitute typeface: U+5D57 and U+4FFB.
SPECIAL_CHARS_FONT_MAP ==
    ("U+5D57" :> "MSMincho") @@ ("U+4FFB" :> "MSMincho")

DEFAULT_FONT == "MSMincho"

\* `OFFSET_X = 300`: the horizontal offset of the second record of a page
OFFSET_X == 30000

\* An adjustment table that overrides the rotation angle of single characters,
\* as WORK_INFO_ADJUSTMENTS does, with an angle other than 270 and for a
\* character outside ROTATED_CHARS: an argument a caller may pass as
\* `adjustments`.
AngleOverrideAdjustments ==
    ("U+300C" :> [x_offset |-> 1000, y_offset |-> 1400, angle |-> 90]) @@
    ("U+6F22" :> [x_offset |-> 0, y_offset |-> 0, angle |-> 90])

\* The table an `adjustments` argument names.
Table(name) ==
    CASE name = "PUNCTUATION_ADJUSTMENTS" -> PUNCTUATION_ADJUSTMENTS
      [] name = "WORK_NAME_ADJUSTMENTS" -> WORK_NAME_ADJUSTMENTS
      [] name = "WORK_INFO_ADJUSTMENTS" -> WORK_INFO_ADJUSTMENTS
      [] name = "NAME_ADJUSTMENTS" -> NAME_ADJUSTMENTS
      [] name = "DEPARTMENT_YEAR_ADJUSTMENTS" -> DEPARTMENT_YEAR_ADJUSTMENTS
      [] name = "AngleOverrideAdjustments" -> AngleOverrideAdjustments

\* fixed-point product of two quantities in hundredths
Mul(a, b) == (a * b) \div 100

\* adjustments.get(char, {'x_offset': 0, 'y_offset': 0})
AdjGet(adjustments, char) ==
    IF char \in DOMAIN Table(adjustments)
    THEN Table(adjustments)[char]
    ELSE [x_offset |-> 0, y_offset |-> 0]

-----------------------------------------------------------------------------
(* calculate_wrap_count *)

\* wrap_count_body with the overflow test off by one (`>` for `>=`)
wrap_count_body_gt(s, char, idx, len, max_chars) ==
    IF char = "\n"
    THEN [lines |-> s.lines + 1, char_count |-> 0]
    ELSE LET is_overflow == s.char_count > max_chars
             is_hanging == is_overflow /\ char \in LEADING_PROHIBITED_CHARS
             s1 == IF is_overflow /\ ~is_hanging
                   THEN [lines |-> s.lines + 1, char_count |-> 0]
                   ELSE s
         IN  IF is_hanging
             THEN IF idx < len - 1
                  THEN [lines |-> s1.lines + 1, char_count |-> 0]
                  ELSE s1
             ELSE [lines |-> s1.lines, char_count |-> s1.char_count + 1]

\* One iteration of the loop of calculate_wrap_count on character `char` at
\* 0-based index idx of a text of length len; s is [lines, char_count].
wrap_count_body(s, char, idx, len, max_chars) ==
    IF char = "\n"
    THEN [lines |-> s.lines + 1, char_count |-> 0]
    ELSE LET is_overflow == s.char_count >= max_chars
             is_hanging == is_overflow /\ char \in LEADING_PROHIBITED_CHARS
             s1 == IF is_overflow /\ ~is_hanging
                   THEN [lines |-> s.lines + 1, char_count |-> 0]
                   ELSE s
         IN  IF is_hanging
             THEN IF idx < len - 1
                  THEN [lines |-> s1.lines + 1, char_count |-> 0]
                  ELSE s1
             ELSE [lines |-> s1.lines, char_count |-> s1.char_count + 1]

RECURSIVE wrap_count_loop(_, _, _, _)
wrap_count_loop(text, max_chars, idx, s) ==
    IF idx = Len(text)
    THEN s
    ELSE wrap_count_loop(text, max_chars, idx + 1,
                         wrap_count_body(s, text[idx + 1], idx, Len(text), max_chars))

\* calculate_wrap_count(text, max_chars) as a value
calculate_wrap_count(text, max_chars) ==
    IF text = <<>>
    THEN 0
    ELSE wrap_count_loop(text, max_chars, 0, [lines |-> 1, char_count |-> 0]).lines - 1

CallsCalculateWrapCount ==
    { [fn |-> "calculate_wrap_count", text |-> t, max_chars |-> w] :
        t \in WrapTexts, w \in 1..MaxChars }

\* `if not text: return 0`
CalculateWrapCountEmpty ==
    /\ args.fn = "calculate_wrap_count"
    /\ pc = "loop"
    /\ args.text = <<>>
    /\ ret' = 0
    /\ pc' = "done"
    /\ UNCHANGED <<args, i, current_x, current_y, char_count, col, n_lines, lines,
                   start, canvas>>
    /\ UNCHANGED <<code, data, run>>

\* one iteration of `for i, char in enumerate(text_str)`
CalculateWrapCountStep ==
    /\ args.fn = "calculate_wrap_count"
    /\ pc = "loop"
    /\ i < Len(args.text)
    /\ LET s == wrap_count_body([lines |-> n_lines, char_count |-> char_count],
                                args.text[i + 1], i, Len(args.text), args.max_chars)
       IN  /\ n_lines' = s.lines
           /\ char_count' = s.char_count
    /\ i' = i + 1
    /\ UNCHANGED <<args, pc, current_x, current_y, col, lines, start, canvas, ret>>
    /\ UNCHANGED <<code, data, run>>

\* `return lines - 1`
CalculateWrapCountReturn ==
    /\ args.fn = "calculate_wrap_count"
    /\ pc = "loop"
    /\ args.text # <<>>
    /\ i = Len(args.text)
    /\ ret' = n_lines - 1
    /\ pc' = "done"
    /\ UNCHANGED <<args, i, current_x, current_y, char_count, col, n_lines, lines,
                   start, canvas>>
    /\ UNCHANGED <<code, data, run>>

-----------------------------------------------------------------------------
(* Drawing one character (shared tail of the vertical layout loops). *)

\* `target_font = SPECIAL_CHARS_FONT_MAP.get(char, DEFAULT_FONT)`
target_font(char) ==
    IF char \in DOMAIN SPECIAL_CHARS_FONT_MAP
    THEN SPECIAL_CHARS_FONT_MAP[char]
    ELSE DEFAULT_FONT

\* canvas.setFont(font, size) as an entry of the operator stream
set_font(font, size) == [ op |-> "setFont", arg |-> [font |-> font, size |-> size] ]

\* bold_on without the switch of the text render mode
bold_on_stroke_only(font_size) ==
    IF USE_BOLD
    THEN << [ op |-> "setLineWidth", arg |-> Mul(font_size, BOLD_WIDTH_RATIO) ],
            [ op |-> "setStrokeColorRGB", arg |-> 0 ] >>
    ELSE << >>

\* `if USE_BOLD:` setLineWidth(font_size * BOLD_WIDTH_RATIO),
\* setStrokeColorRGB(0, 0, 0), `2 Tr` (fill and stroke)
bold_on(font_size) ==
    IF USE_BOLD
    THEN << [ op |-> "setLineWidth", arg |-> Mul(font_size, BOLD_WIDTH_RATIO) ],
            [ op |-> "setStrokeColorRGB", arg |-> 0 ],
            [ op |-> "Tr", arg |-> 2 ] >>
    ELSE << >>

\* `if USE_BOLD:` `0 Tr` (fill only)
bold_off ==
    IF USE_BOLD THEN << [ op |-> "Tr", arg |-> 0 ] >> ELSE << >>

\* a drawString call as an entry of the operator stream: n is its index in
\* `canvas`.  The saveState / translate / rotate / restoreState frame of a
\* rotated character belongs to the entry.
draw_string(n) == [ op |-> "drawString", arg |-> n ]

\* What one iteration of a vertical layout loop writes for the character it
\* draws as the n-th drawString: the font switch, bold on, the draw, bold off.
char_ops(char, font_size, n) ==
    <<set_font(target_font(char), font_size)>> \o bold_on(font_size)
    \o <<draw_string(n)>> \o bold_off

\* `rotation_angle = adj.get('angle')`, then the three-way branch: the angle of
\* the entry when it has one, else 270 for a member of ROTATED_CHARS, else none.
rotation(adj, char) ==
    IF "angle" \in DOMAIN adj
    THEN [rotated |-> TRUE, angle |-> adj.angle]
    ELSE IF char \in ROTATED_CHARS
         THEN [rotated |-> TRUE, angle |-> 270]
         ELSE [rotated |-> FALSE, angle |-> 0]

\* The drawString call for one character.  A rotated character is drawn by
\* translate(draw_x, draw_y); rotate(angle); drawString(0, -font_size / 4); an
\* unrotated one by drawString(draw_x, draw_y).  x, y record draw_x, draw_y and
\* string_y the vertical argument of drawString in the rotated frame.
draw_char(char, draw_x, draw_y, rot, font_size) ==
    [ char |-> char, x |-> draw_x, y |-> draw_y,
      rotated |-> rot.rotated, angle |-> rot.angle,
      string_y |-> IF rot.rotated THEN -(font_size \div 4) ELSE 0 ]

-----------------------------------------------------------------------------
(* draw_vertical_text_with_wrap *)

\* is_overflow with the comparison strict: a column takes one character more
is_overflow_gt(count, max_chars_per_line) == count > max_chars_per_line

\* `is_overflow = char_count >= max_chars_per_line`
is_overflow(count, max_chars_per_line) == count >= max_chars_per_line

\* is_hanging without the hanging rule: a prohibited character wraps like any
\* other
is_hanging_never(count, max_chars_per_line, char) == FALSE

\* `is_hanging = is_overflow and char in LEADING_PROHIBITED_CHARS`
is_hanging(count, max_chars_per_line, char) ==
    is_overflow(count, max_chars_per_line) /\ char \in LEADING_PROHIBITED_CHARS

\* the adjustment entry used: the hanging one for a hanging character that has
\* one, else adjustments.get(char, zero offsets)
wrap_adj(hanging, adjustments, char) ==
    IF hanging /\ char \in DOMAIN HANGING_PUNCTUATION_ADJUSTMENTS
    THEN HANGING_PUNCTUATION_ADJUSTMENTS[char]
    ELSE AdjGet(adjustments, char)

\* hanging_shift with the upward shift left out
hanging_shift_none(font_size, char_spacing) == 0

\* `draw_y += (font_size * char_spacing)` of a hanging character
hanging_shift(font_size, char_spacing) == Mul(font_size, char_spacing)

\* next_column_x with the sign of the step wrong
next_column_x_right(x, line_spacing) == x + line_spacing

\* `current_x -= line_spacing` (line break, overflow, after a hanging character)
next_column_x(x, line_spacing) == x - line_spacing

\* `current_y -= font_size * char_spacing` after a regular character
next_row_y(y, font_size, char_spacing) == y - Mul(font_size, char_spacing)

CallsDrawVerticalTextWithWrap ==
    { [ fn |-> "draw_vertical_text_with_wrap", text |-> t,
        x |-> COORDINATES.syakubun.x[1], y |-> COORDINATES.syakubun.y,
        font_size |-> COORDINATES.syakubun.font_size,
        char_spacing |-> COORDINATES.syakubun.char_spacing,
        max_chars_per_line |-> w,
        line_spacing |-> COORDINATES.syakubun.line_spacing,
        adjustments |-> a ] :
        t \in Texts, w \in 1..MaxChars,
        a \in {"PUNCTUATION_ADJUSTMENTS", "WORK_INFO_ADJUSTMENTS"} }

\* line_break without `char_count = 0`
line_break_keeps_row(a, cx, cy, count, c) ==
    [ current_x |-> next_column_x(cx, a.line_spacing), current_y |-> a.y,
      char_count |-> count, col |-> c + 1, drawn |-> <<>> ]

\* `if char == '\n'`: next column, top of the column, row counter 0, nothing
\* drawn (`continue`)
line_break(a, cx, cy, count, c) ==
    [ current_x |-> next_column_x(cx, a.line_spacing), current_y |-> a.y,
      char_count |-> 0, col |-> c + 1, drawn |-> <<>> ]

\* the rest of the loop body, for a character other than the line break, at
\* 0-based index idx: the locals after the iteration and the character drawn
place_char(a, char, idx, cx, cy, count, c) ==
    LET over == is_overflow(count, a.max_chars_per_line)
        hang == is_hanging(count, a.max_chars_per_line, char)
        wrap == over /\ ~hang
        x1 == IF wrap THEN next_column_x(cx, a.line_spacing) ELSE cx
        y1 == IF wrap THEN a.y ELSE cy
        n1 == IF wrap THEN 0 ELSE count
        c1 == IF wrap THEN c + 1 ELSE c
        adj == wrap_adj(hang, a.adjustments, char)
        draw_x == x1 + adj.x_offset
        draw_y == y1 + adj.y_offset
                  + (IF hang THEN hanging_shift(a.font_size, a.char_spacing) ELSE 0)
        rec == draw_char(char, draw_x, draw_y, rotation(adj, char), a.font_size)
               @@ [ idx |-> idx, is_hanging |-> hang, count_in |-> count,
                    current_x |-> x1, current_y |-> y1, char_count |-> n1,
                    col |-> c1 ]
    IN  IF hang
        THEN [ current_x |-> next_column_x(x1, a.line_spacing), current_y |-> a.y,
               char_count |-> 0, col |-> c1 + 1, drawn |-> <<rec>> ]
        ELSE [ current_x |-> x1,
               current_y |-> next_row_y(y1, a.font_size, a.char_spacing),
               char_count |-> n1 + 1, col |-> c1, drawn |-> <<rec>> ]

\* `canvas.setFont(DEFAULT_FONT, font_size)`, `current_x, current_y = x, y` and
\* `char_count = 0` before the loop
DrawVerticalTextWithWrapEnter ==
    /\ args.fn = "draw_vertical_text_with_wrap"
    /\ pc = "enter"
    /\ current_x' = args.x
    /\ current_y' = args.y
    /\ char_count' = 0
    /\ code' = Append(code, set_font(DEFAULT_FONT, args.font_size))
    /\ pc' = "loop"
    /\ UNCHANGED <<args, i, col, n_lines, lines, start, canvas, ret>>
    /\ UNCHANGED <<data, run>>

\* one iteration of `for i, char in enumerate(text_str)`
DrawVerticalTextWithWrapStep ==
    /\ args.fn = "draw_vertical_text_with_wrap"
    /\ pc = "loop"
    /\ i < Len(args.text)
    /\ LET char == args.text[i + 1]
           s == IF char = "\n"
                THEN line_break(args, current_x, current_y, char_count, col)
                ELSE place_char(args, char, i, current_x, current_y, char_count, col)
       IN  /\ current_x' = s.current_x
           /\ current_y' = s.current_y
           /\ char_count' = s.char_count
           /\ col' = s.col
           /\ canvas' = canvas \o s.drawn
           /\ code' = IF s.drawn = <<>>
                      THEN code
                      ELSE code \o char_ops(char, args.font_size, Len(canvas) + 1)
    /\ i' = i + 1
    /\ UNCHANGED <<args, pc, n_lines, lines, start, ret>>
    /\ UNCHANGED <<data, run>>

\* the loop is exhausted and the function returns
DrawVerticalTextWithWrapReturn ==
    /\ args.fn = "draw_vertical_text_with_wrap"
    /\ pc = "loop"
    /\ i = Len(args.text)
    /\ pc' = "done"
    /\ UNCHANGED <<args, i, current_x, current_y, char_count, col, n_lines, lines,
                   start, canvas, ret>>
    /\ UNCHANGED <<code, data, run>>

-----------------------------------------------------------------------------
(* draw_vertical_text *)

CallsDrawVerticalText ==
    { [ fn |-> "draw_vertical_text", text |-> t,
        x |-> COORDINATES[f].x, y |-> COORDINATES[f].y,
        font_size |-> COORDINATES[f].font_size,
        char_spacing |-> COORDINATES[f].char_spacing,
        adjustments |-> COORDINATES[f].adjustments ] :
        t \in Texts, f \in {"gakubu_gakunen", "sakuhin_joho"} }
    \cup
    { [ fn |-> "draw_vertical_text", text |-> t,
        x |-> COORDINATES.sakuhin_joho.x, y |-> COORDINATES.sakuhin_joho.y,
        font_size |-> COORDINATES.sakuhin_joho.font_size,
        char_spacing |-> COORDINATES.sakuhin_joho.char_spacing,
        adjustments |-> "AngleOverrideAdjustments" ] :
        t \in SeqsUpTo(Chars, MaxNameLen) }

\* vertical_char without the adjustment offsets
vertical_char_unadjusted(a, char, idx) ==
    LET draw_x == a.x
        draw_y == a.y - idx * Mul(a.font_size, a.char_spacing)
    IN  draw_char(char, draw_x, draw_y,
                  rotation(AdjGet(a.adjustments, char), char), a.font_size)
        @@ [ idx |-> idx ]

\* the body of `for i, char in enumerate(str(text))`: the character drawn at
\* 0-based index idx
vertical_char(a, char, idx) ==
    LET adj == AdjGet(a.adjustments, char)
        draw_x == a.x + adj.x_offset
        draw_y == a.y - idx * Mul(a.font_size, a.char_spacing) + adj.y_offset
    IN  draw_char(char, draw_x, draw_y, rotation(adj, char), a.font_size)
        @@ [ idx |-> idx ]

\* draw_vertical_text has nothing to set up before its loop
DrawVerticalTextEnter ==
    /\ args.fn = "draw_vertical_text"
    /\ pc = "enter"
    /\ pc' = "loop"
    /\ UNCHANGED <<args, i, current_x, current_y, char_count, col, n_lines, lines,
                   start, canvas, ret>>
    /\ UNCHANGED <<code, data, run>>

DrawVerticalTextStep ==
    /\ args.fn = "draw_vertical_text"
    /\ pc = "loop"
    /\ i < Len(args.text)
    /\ canvas' = Append(canvas, vertical_char(args, args.text[i + 1], i))
    /\ code' = code \o char_ops(args.text[i + 1], args.font_size, Len(canvas) + 1)
    /\ i' = i + 1
    /\ UNCHANGED <<args, pc, current_x, current_y, char_count, col, n_lines, lines,
                   start, ret>>
    /\ UNCHANGED <<data, run>>

DrawVerticalTextReturn ==
    /\ args.fn = "draw_vertical_text"
    /\ pc = "loop"
    /\ i = Len(args.text)
    /\ pc' = "done"
    /\ UNCHANGED <<args, i, current_x, current_y, char_count, col, n_lines, lines,
                   start, canvas, ret>>
    /\ UNCHANGED <<code, data, run>>

-----------------------------------------------------------------------------
(* draw_name_and_furigana *)

\* `if char in ROTATED_CHARS: ... canvas.rotate(270)`, else unrotated: the
\* adjustment entry is not asked for an angle
name_rotation(char) ==
    IF char \in ROTATED_CHARS
    THEN [rotated |-> TRUE, angle |-> 270]
    ELSE [rotated |-> FALSE, angle |-> 0]

CallsDrawNameAndFurigana ==
    { [ fn |-> "draw_name_and_furigana", name |-> n, furigana |-> f,
        x |-> COORDINATES.namae.x, y |-> COORDINATES.namae.y,
        name_font_size |-> COORDINATES.namae.name_font_size,
        furigana_font_size |-> COORDINATES.namae.furigana_font_size,
        char_spacing |-> COORDINATES.namae.char_spacing,
        adjustments |-> a,
        furigana_x_offset |-> COORDINATES.namae.furigana_x_offset,
        furigana_y_spacing |-> COORDINATES.namae.furigana_y_spacing ] :
        n \in SeqsUpTo(Chars, MaxNameLen),
        f \in SeqsUpTo(FuriganaChars, MaxNameLen),
        a \in {"NAME_ADJUSTMENTS", "AngleOverrideAdjustments"} }

\* one character of the name or of the furigana, drawn in column base_x at the
\* running position y with the part's font size
name_char(a, char, idx, base_x, y, font_size, part) ==
    LET adj == AdjGet(a.adjustments, char)
        draw_x == base_x + adj.x_offset
        draw_y == y + adj.y_offset
    IN  draw_char(char, draw_x, draw_y, name_rotation(char), font_size)
        @@ [ idx |-> idx, part |-> part ]

\* `current_y = y`
DrawNameAndFuriganaEnter ==
    /\ args.fn = "draw_name_and_furigana"
    /\ pc = "enter"
    /\ current_y' = args.y
    /\ pc' = "name"
    /\ UNCHANGED <<args, i, current_x, char_count, col, n_lines, lines, start,
                   canvas, ret>>
    /\ UNCHANGED <<code, data, run>>

\* one iteration of `for char in str(name)`
DrawNameStep ==
    /\ args.fn = "draw_name_and_furigana"
    /\ pc = "name"
    /\ i < Len(args.name)
    /\ canvas' = Append(canvas, name_char(args, args.name[i + 1], i, args.x,
                                          current_y, args.name_font_size, "name"))
    /\ code' = code \o char_ops(args.name[i + 1], args.name_font_size, Len(canvas) + 1)
    /\ current_y' = current_y - Mul(args.name_font_size, args.char_spacing)
    /\ i' = i + 1
    /\ UNCHANGED <<args, pc, current_x, char_count, col, n_lines, lines, start, ret>>
    /\ UNCHANGED <<data, run>>

\* between the loops: `if name and furigana: current_y -= furigana_y_spacing`
DrawNameGap ==
    /\ args.fn = "draw_name_and_furigana"
    /\ pc = "name"
    /\ i = Len(args.name)
    /\ current_y' = IF args.name # <<>> /\ args.furigana # <<>>
                    THEN current_y - args.furigana_y_spacing
                    ELSE current_y
    /\ i' = 0
    /\ pc' = "furigana"
    /\ UNCHANGED <<args, current_x, char_count, col, n_lines, lines, start, canvas,
                   ret>>
    /\ UNCHANGED <<code, data, run>>

\* one iteration of `for char in str(furigana)`, in column
\* furigana_base_x = x + furigana_x_offset
DrawFuriganaStep ==
    /\ args.fn = "draw_name_and_furigana"
    /\ pc = "furigana"
    /\ i < Len(args.furigana)
    /\ canvas' = Append(canvas, name_char(args, args.furigana[i + 1], i,
                                          args.x + args.furigana_x_offset, current_y,
                                          args.furigana_font_size, "furigana"))
    /\ code' = code \o char_ops(args.furigana[i + 1], args.furigana_font_size,
                                 Len(canvas) + 1)
    /\ current_y' = current_y - Mul(args.furigana_font_size, args.char_spacing)
    /\ i' = i + 1
    /\ UNCHANGED <<args, pc, current_x, char_count, col, n_lines, lines, start, ret>>
    /\ UNCHANGED <<data, run>>

DrawNameAndFuriganaReturn ==
    /\ args.fn = "draw_name_and_furigana"
    /\ pc = "furigana"
    /\ i = Len(args.furigana)
    /\ pc' = "done"
    /\ UNCHANGED <<args, i, current_x, current_y, char_count, col, n_lines, lines,
                   start, canvas, ret>>
    /\ UNCHANGED <<code, data, run>>

-----------------------------------------------------------------------------
(* draw_horizontal_text_with_wrap and draw_centered_horizontal_text_with_wrap *)

\* text_str.find('\n', start, end): the lowest 0-based index in [start, end)
\* that holds a line break, or -1
find_newline(text_str, from, to) ==
    LET hits == { k \in from..(to - 1) : k < Len(text_str) /\ text_str[k + 1] = "\n" }
    IN  IF hits = {} THEN -1 ELSE CHOOSE k \in hits : \A h \in hits : k <= h

\* text_str[from:to]
Slice(text_str, from, to) == SubSeq(text_str, from + 1, to)

\* split_line deferring every break by one character, prohibited or not
split_line_always_defer(text_str, from, max_chars_per_line) ==
    LET end == from + max_chars_per_line
    IN  IF end >= Len(text_str)
        THEN [ line |-> Slice(text_str, from, Len(text_str)), start |-> Len(text_str) ]
        ELSE LET newline_pos == find_newline(text_str, from, end)
             IN  IF newline_pos # -1
                 THEN [ line |-> Slice(text_str, from, newline_pos),
                        start |-> newline_pos + 1 ]
                 ELSE [ line |-> Slice(text_str, from, end + 1), start |-> end + 1 ]

\* split_line leaving out of the line the prohibited character it steps over
split_line_drop_deferred(text_str, from, max_chars_per_line) ==
    LET end == from + max_chars_per_line
    IN  IF end >= Len(text_str)
        THEN [ line |-> Slice(text_str, from, Len(text_str)), start |-> Len(text_str) ]
        ELSE LET newline_pos == find_newline(text_str, from, end)
             IN  IF newline_pos # -1
                 THEN [ line |-> Slice(text_str, from, newline_pos),
                        start |-> newline_pos + 1 ]
                 ELSE LET end1 == IF text_str[end + 1] \in LEADING_PROHIBITED_CHARS
                                  THEN end + 1
                                  ELSE end
                      IN  [ line |-> Slice(text_str, from, end), start |-> end1 ]

\* split_line leaving start where it is when a line break is the first
\* character of the window
split_line_stuck_at_break(text_str, from, max_chars_per_line) ==
    LET end == from + max_chars_per_line
    IN  IF end >= Len(text_str)
        THEN [ line |-> Slice(text_str, from, Len(text_str)), start |-> Len(text_str) ]
        ELSE LET newline_pos == find_newline(text_str, from, end)
             IN  IF newline_pos # -1
                 THEN [ line |-> Slice(text_str, from, newline_pos),
                        start |-> newline_pos ]
                 ELSE LET end1 == IF text_str[end + 1] \in LEADING_PROHIBITED_CHARS
                                  THEN end + 1
                                  ELSE end
                      IN  [ line |-> Slice(text_str, from, end1), start |-> end1 ]

\* One iteration of `while start < len(text_str)`: the line cut and the new
\* start.  The two functions hold the same loop.
split_line(text_str, from, max_chars_per_line) ==
    LET end == from + max_chars_per_line
    IN  IF end >= Len(text_str)
        THEN [ line |-> Slice(text_str, from, Len(text_str)), start |-> Len(text_str) ]
        ELSE LET newline_pos == find_newline(text_str, from, end)
             IN  IF newline_pos # -1
                 THEN [ line |-> Slice(text_str, from, newline_pos),
                        start |-> newline_pos + 1 ]
                 ELSE LET end1 == IF text_str[end + 1] \in LEADING_PROHIBITED_CHARS
                                  THEN end + 1
                                  ELSE end
                      IN  [ line |-> Slice(text_str, from, end1), start |-> end1 ]

\* coord.get('line_height', int(coord['font_size'] * 1.2)) of draw_content_blocks;
\* no field of COORDINATES has a 'line_height'
line_height_of(coord) == ((coord.font_size * 120) \div 10000) * 100

\* the characters 0x20..0x7E (the grave accent, which a string of this
\* language cannot hold, by its code point)
PrintableAscii ==
    { " ", "!", "\"", "#", "$", "%", "&", "'", "(", ")", "*", "+", ",", "-", ".", "/",
      "0", "1", "2", "3", "4", "5", "6", "7", "8", "9", ":", ";", "<", "=", ">", "?",
      "@", "A", "B", "C", "D", "E", "F", "G", "H", "I", "J", "K", "L", "M", "N", "O",
      "P", "Q", "R", "S", "T", "U", "V", "W", "X", "Y", "Z", "[", "\\", "]", "^", "_",
      "U+0060", "a", "b", "c", "d", "e", "f", "g", "h", "i", "j", "k", "l", "m", "n", "o",
      "p", "q", "r", "s", "t", "u", "v", "w", "x", "y", "z", "{", "|", "}", "~" }

\* pdfmetrics.stringWidth(line, font_name, font_size) for the monospaced
\* MSMincho: half an em for a printable ASCII character, one em otherwise
string_width(line, font_size) ==
    LET w[k \in 0..Len(line)] ==
          IF k = 0 THEN 0
          ELSE w[k - 1] + (IF line[k] \in PrintableAscii
                           THEN font_size \div 2
                           ELSE font_size)
    IN  w[Len(line)]

\* The typefaces main registers; draw_content_blocks passes DEFAULT_FONT as
\* font_name.
RegisteredFonts == { "HGRGE", "HGRME", "MSMincho" }

\* the characters of the texts laid out with a font_name other than
\* DEFAULT_FONT: one without and one with an entry in SPECIAL_CHARS_FONT_MAP
FontChars == { "U+6F22", "U+5D57" }

CallsDrawHorizontalTextWithWrap ==
    { [ fn |-> "draw_horizontal_text_with_wrap", text |-> t,
        x |-> COORDINATES.rinsyo_kaisetu.x, y |-> COORDINATES.rinsyo_kaisetu.y,
        font_name |-> DEFAULT_FONT,
        font_size |-> COORDINATES.rinsyo_kaisetu.font_size,
        max_chars_per_line |-> w,
        line_height |-> line_height_of(COORDINATES.rinsyo_kaisetu) ] :
        t \in LineTexts, w \in 1..MaxChars }
    \cup
    { [ fn |-> "draw_horizontal_text_with_wrap", text |-> t,
        x |-> COORDINATES.rinsyo_kaisetu.x, y |-> COORDINATES.rinsyo_kaisetu.y,
        font_name |-> "HGRGE",
        font_size |-> COORDINATES.rinsyo_kaisetu.font_size,
        max_chars_per_line |-> COORDINATES.rinsyo_kaisetu.max_chars,
        line_height |-> line_height_of(COORDINATES.rinsyo_kaisetu) ] :
        t \in SeqsUpTo(FontChars, MaxNameLen) }

CallsDrawCenteredHorizontalTextWithWrap ==
    { [ fn |-> "draw_centered_horizontal_text_with_wrap", text |-> t,
        x |-> COORDINATES.sakuhin_joho_hojo.x, y |-> COORDINATES.sakuhin_joho_hojo.y,
        font_name |-> DEFAULT_FONT,
        font_size |-> COORDINATES.sakuhin_joho_hojo.font_size,
        max_chars_per_line |-> w,
        line_height |-> line_height_of(COORDINATES.sakuhin_joho_hojo) ] :
        t \in LineTexts, w \in 1..MaxChars }

CallsDrawHorizontalText ==
    { [ fn |-> "draw_horizontal_text", text |-> t,
        x |-> COORDINATES.rinsyo_kaisetu.x, y |-> COORDINATES.rinsyo_kaisetu.y,
        font_name |-> f,
        font_size |-> COORDINATES.rinsyo_kaisetu.font_size ] :
        t \in SeqsUpTo(FontChars, MaxNameLen), f \in { DEFAULT_FONT, "HGRGE" } }

\* draw_horizontal_text: `canvas.setFont(font_name, font_size)`, bold on,
\* `canvas.drawString(x, y, str(text))`, bold off
DrawHorizontalText ==
    /\ args.fn = "draw_horizontal_text"
    /\ pc = "enter"
    /\ canvas' = Append(canvas, [ line |-> args.text, x |-> args.x, y |-> args.y,
                                  idx |-> 0 ])
    /\ code' = <<set_font(args.font_name, args.font_size)>>
               \o bold_on(args.font_size)
               \o <<draw_string(Len(canvas) + 1)>>
               \o bold_off
    /\ pc' = "done"
    /\ UNCHANGED <<args, i, current_x, current_y, char_count, col, n_lines, lines,
                   start, ret, data, run>>

\* `canvas.setFont(font_name, font_size)`, bold on, `lines = []`, `start = 0`
DrawHorizontalTextWithWrapEnter ==
    /\ args.fn = "draw_horizontal_text_with_wrap"
    /\ pc = "enter"
    /\ code' = <<set_font(args.font_name, args.font_size)>> \o bold_on(args.font_size)
    /\ lines' = <<>>
    /\ start' = 0
    /\ pc' = "loop"
    /\ UNCHANGED <<args, i, current_x, current_y, char_count, col, n_lines, canvas,
                   ret>>
    /\ UNCHANGED <<data, run>>

\* one iteration of `while start < len(text_str)`, `lines.append(line)` included
DrawHorizontalTextWithWrapSplit ==
    /\ args.fn = "draw_horizontal_text_with_wrap"
    /\ pc = "loop"
    /\ start < Len(args.text)
    /\ LET s == split_line(args.text, start, args.max_chars_per_line)
       IN  /\ lines' = Append(lines, s.line)
           /\ start' = s.start
    /\ UNCHANGED <<args, pc, i, current_x, current_y, char_count, col, n_lines,
                   canvas, ret>>
    /\ UNCHANGED <<code, data, run>>

\* the splitting loop ends
DrawHorizontalTextWithWrapSplitDone ==
    /\ args.fn = "draw_horizontal_text_with_wrap"
    /\ pc = "loop"
    /\ start >= Len(args.text)
    /\ pc' = "draw"
    /\ UNCHANGED <<args, i, current_x, current_y, char_count, col, n_lines, lines,
                   start, canvas, ret>>
    /\ UNCHANGED <<code, data, run>>

\* one iteration of `for i, line in enumerate(lines)`:
\* canvas.drawString(x, y - i*line_height, line)
DrawHorizontalTextWithWrapDraw ==
    /\ args.fn = "draw_horizontal_text_with_wrap"
    /\ pc = "draw"
    /\ i < Len(lines)
    /\ canvas' = Append(canvas, [ line |-> lines[i + 1], x |-> args.x,
                                  y |-> args.y - i * args.line_height, idx |-> i ])
    /\ code' = Append(code, draw_string(Len(canvas) + 1))
    /\ i' = i + 1
    /\ UNCHANGED <<args, pc, current_x, current_y, char_count, col, n_lines, lines,
                   start, ret>>
    /\ UNCHANGED <<data, run>>

\* the drawing loop ends: bold off, return
DrawHorizontalTextWithWrapReturn ==
    /\ args.fn = "draw_horizontal_text_with_wrap"
    /\ pc = "draw"
    /\ i = Len(lines)
    /\ code' = code \o bold_off
    /\ pc' = "done"
    /\ UNCHANGED <<args, i, current_x, current_y, char_count, col, n_lines, lines,
                   start, canvas, ret>>
    /\ UNCHANGED <<data, run>>

\* centered_draw_x without the centering: the line starts at the anchor
centered_draw_x_at_anchor(x, line_width) == x

\* `draw_x = x - line_width / 2`
centered_draw_x(x, line_width) == x - line_width \div 2

\* `canvas.setFont(font_name, font_size)`, bold on, `lines = []`, `start = 0`
DrawCenteredHorizontalTextWithWrapEnter ==
    /\ args.fn = "draw_centered_horizontal_text_with_wrap"
    /\ pc = "enter"
    /\ code' = <<set_font(args.font_name, args.font_size)>> \o bold_on(args.font_size)
    /\ lines' = <<>>
    /\ start' = 0
    /\ pc' = "loop"
    /\ UNCHANGED <<args, i, current_x, current_y, char_count, col, n_lines, canvas,
                   ret>>
    /\ UNCHANGED <<data, run>>

\* one iteration of `while start < len(text_str)`, `lines.append(line)` included
DrawCenteredHorizontalTextWithWrapSplit ==
    /\ args.fn = "draw_centered_horizontal_text_with_wrap"
    /\ pc = "loop"
    /\ start < Len(args.text)
    /\ LET s == split_line(args.text, start, args.max_chars_per_line)
       IN  /\ lines' = Append(lines, s.line)
           /\ start' = s.start
    /\ UNCHANGED <<args, pc, i, current_x, current_y, char_count, col, n_lines,
                   canvas, ret>>
    /\ UNCHANGED <<code, data, run>>

\* the splitting loop ends
DrawCenteredHorizontalTextWithWrapSplitDone ==
    /\ args.fn = "draw_centered_horizontal_text_with_wrap"
    /\ pc = "loop"
    /\ start >= Len(args.text)
    /\ pc' = "draw"
    /\ UNCHANGED <<args, i, current_x, current_y, char_count, col, n_lines, lines,
                   start, canvas, ret>>
    /\ UNCHANGED <<code, data, run>>

\* one iteration of `for i, line in enumerate(lines)`: the line is drawn with
\* its left edge at x - line_width / 2
DrawCenteredHorizontalTextWithWrapDraw ==
    /\ args.fn = "draw_centered_horizontal_text_with_wrap"
    /\ pc = "draw"
    /\ i < Len(lines)
    /\ LET line_width == string_width(lines[i + 1], args.font_size)
           draw_x == centered_draw_x(args.x, line_width)
           draw_y == args.y - i * args.line_height
       IN  canvas' = Append(canvas, [ line |-> lines[i + 1], x |-> draw_x,
                                      y |-> draw_y, idx |-> i ])
    /\ code' = Append(code, draw_string(Len(canvas) + 1))
    /\ i' = i + 1
    /\ UNCHANGED <<args, pc, current_x, current_y, char_count, col, n_lines, lines,
                   start, ret>>
    /\ UNCHANGED <<data, run>>

\* the drawing loop ends: bold off, return
DrawCenteredHorizontalTextWithWrapReturn ==
    /\ args.fn = "draw_centered_horizontal_text_with_wrap"
    /\ pc = "draw"
    /\ i = Len(lines)
    /\ code' = code \o bold_off
    /\ pc' = "done"
    /\ UNCHANGED <<args, i, current_x, current_y, char_count, col, n_lines, lines,
                   start, canvas, ret>>
    /\ UNCHANGED <<data, run>>

-----------------------------------------------------------------------------
(* draw_content_blocks: the anchor of a wrap-dependent field *)

\* wrap_anchor ignoring the wrap count: always the first candidate
wrap_anchor_first(x_options, wrap_count) == x_options[1]

\* `base_x = x_options[wrap_count] if wrap_count < len(x_options) else
\* x_options[-1]` (the list is indexed from 0 in the source, from 1 here)
wrap_anchor(x_options, wrap_count) ==
    IF wrap_count < Len(x_options)
    THEN x_options[wrap_count + 1]
    ELSE x_options[Len(x_options)]

\* the fields with a list of candidate anchors
WrapDependentFields == { "syakubun", "komento" }

\* draw_content_blocks reaching a wrap-dependent field with the value of the
\* record, for the first (x_offset 0) or second (OFFSET_X) record of a page
CallsDrawContentBlocks ==
    { [ fn |-> "draw_content_blocks", column |-> f, value |-> t, x_offset |-> o ] :
        f \in WrapDependentFields, t \in WrapTexts, o \in {0, OFFSET_X} }

\* `if column in ['コメント', '釈文'] and isinstance(coord['x'], list):` the wrap
\* count of the value picks the anchor, and `x = base_x + x_offset`
DrawContentBlocksAnchor ==
    /\ args.fn = "draw_content_blocks"
    /\ pc = "enter"
    /\ LET coord == COORDINATES[args.column]
           max_chars == coord.max_chars
           wrap_count == calculate_wrap_count(args.value, max_chars)
           base_x == wrap_anchor(coord.x, wrap_count)
       IN  ret' = base_x + args.x_offset
    /\ pc' = "done"
    /\ UNCHANGED <<args, i, current_x, current_y, char_count, col, n_lines, lines,
                   start, canvas, code, data, run>>

-----------------------------------------------------------------------------
(* to_full_width *)

\* In this function a character is its code point, since the source computes
\* with code points; a text is a sequence of code points.

\* longest text handed to to_full_width
MaxWidthLen == 3

\* The code points the texts are made of: the line break (10), the space (32),
\* "!" (33, 0x21), "A" (65), "~" (126, 0x7E), DEL (127), the katakana KA
\* (12459), the full-width "A" (65313), and the half-width ideographic full
\* stop (65377, 0xFF61), KA (65398) and voiced sound mark (65438, 0xFF9E).
WidthChars == { 10, 32, 33, 65, 126, 127, 12459, 65313, 65377, 65398, 65438 }

\* unicodedata.normalize('NFKC', c) of each code point of 0xFF61..0xFF9F
NFKC_HALFWIDTH ==
    (65377 :> 12290) @@ (65378 :> 12300) @@ (65379 :> 12301) @@ (65380 :> 12289) @@
    (65381 :> 12539) @@ (65382 :> 12530) @@ (65383 :> 12449) @@ (65384 :> 12451) @@
    (65385 :> 12453) @@ (65386 :> 12455) @@ (65387 :> 12457) @@ (65388 :> 12515) @@
    (65389 :> 12517) @@ (65390 :> 12519) @@ (65391 :> 12483) @@ (65392 :> 12540) @@
    (65393 :> 12450) @@ (65394 :> 12452) @@ (65395 :> 12454) @@ (65396 :> 12456) @@
    (65397 :> 12458) @@ (65398 :> 12459) @@ (65399 :> 12461) @@ (65400 :> 12463) @@
    (65401 :> 12465) @@ (65402 :> 12467) @@ (65403 :> 12469) @@ (65404 :> 12471) @@
    (65405 :> 12473) @@ (65406 :> 12475) @@ (65407 :> 12477) @@ (65408 :> 12479) @@
    (65409 :> 12481) @@ (65410 :> 12484) @@ (65411 :> 12486) @@ (65412 :> 12488) @@
    (65413 :> 12490) @@ (65414 :> 12491) @@ (65415 :> 12492) @@ (65416 :> 12493) @@
    (65417 :> 12494) @@ (65418 :> 12495) @@ (65419 :> 12498) @@ (65420 :> 12501) @@
    (65421 :> 12504) @@ (65422 :> 12507) @@ (65423 :> 12510) @@ (65424 :> 12511) @@
    (65425 :> 12512) @@ (65426 :> 12513) @@ (65427 :> 12514) @@ (65428 :> 12516) @@
    (65429 :> 12518) @@ (65430 :> 12520) @@ (65431 :> 12521) @@ (65432 :> 12522) @@
    (65433 :> 12523) @@ (65434 :> 12524) @@ (65435 :> 12525) @@ (65436 :> 12527) @@
    (65437 :> 12531) @@ (65438 :> 12441) @@ (65439 :> 12442)

\* the canonical compositions NFKC makes of a kana followed by the combining
\* voiced (12441) or semi-voiced (12442) sound mark
NFKC_COMPOSE ==
    (<<12454, 12441>> :> 12532) @@ (<<12459, 12441>> :> 12460) @@ (<<12461, 12441>> :> 12462) @@
    (<<12463, 12441>> :> 12464) @@ (<<12465, 12441>> :> 12466) @@ (<<12467, 12441>> :> 12468) @@
    (<<12469, 12441>> :> 12470) @@ (<<12471, 12441>> :> 12472) @@ (<<12473, 12441>> :> 12474) @@
    (<<12475, 12441>> :> 12476) @@ (<<12477, 12441>> :> 12478) @@ (<<12479, 12441>> :> 12480) @@
    (<<12481, 12441>> :> 12482) @@ (<<12484, 12441>> :> 12485) @@ (<<12486, 12441>> :> 12487) @@
    (<<12488, 12441>> :> 12489) @@ (<<12495, 12441>> :> 12496) @@ (<<12495, 12442>> :> 12497) @@
    (<<12498, 12441>> :> 12499) @@ (<<12498, 12442>> :> 12500) @@ (<<12501, 12441>> :> 12502) @@
    (<<12501, 12442>> :> 12503) @@ (<<12504, 12441>> :> 12505) @@ (<<12504, 12442>> :> 12506) @@
    (<<12507, 12441>> :> 12508) @@ (<<12507, 12442>> :> 12509) @@ (<<12527, 12441>> :> 12535) @@
    (<<12530, 12441>> :> 12538)

\* translate_char leaving the space alone
translate_char_keep_space(c) ==
    IF c \in 33..126 THEN c + 65248 ELSE c

\* `trans_table`: 0x20 -> 0x3000, and i -> i + 0xFEE0 for i in range(0x21, 0x7F)
translate_char(c) ==
    IF c = 32 THEN 12288
    ELSE IF c \in 33..126 THEN c + 65248
    ELSE c

\* `text.translate(trans_table)`
translate(text) == [ k \in 1..Len(text) |-> translate_char(text[k]) ]

\* the character class [\uff61-\uff9f]
is_halfwidth_katakana(c) == c \in 65377..65439

\* re.sub(r'[\uff61-\uff9f]+', replace_katakana, text), from the k-th character
\* on: out is the result so far and in_run says that the character before
\* belongs to the run being normalized.  NFKC maps each character of a run and
\* then composes a sound mark with the kana right before it in the run.
RECURSIVE replace_katakana(_, _, _, _)
replace_katakana(text, k, out, in_run) ==
    IF k > Len(text) THEN out
    ELSE IF ~is_halfwidth_katakana(text[k])
    THEN replace_katakana(text, k + 1, Append(out, text[k]), FALSE)
    ELSE LET d == NFKC_HALFWIDTH[text[k]]
             last == IF in_run THEN out[Len(out)] ELSE 0
         IN  IF in_run /\ <<last, d>> \in DOMAIN NFKC_COMPOSE
             THEN replace_katakana(text, k + 1,
                                   [out EXCEPT ![Len(out)] = NFKC_COMPOSE[<<last, d>>]],
                                   TRUE)
             ELSE replace_katakana(text, k + 1, Append(out, d), TRUE)

\* to_full_width of a str
to_full_width(text) == replace_katakana(translate(text), 1, <<>>, FALSE)

CallsToFullWidth ==
    { [ fn |-> "to_full_width", text |-> t ] : t \in SeqsUpTo(WidthChars, MaxWidthLen) }

\* `text = text.translate(trans_table)`
ToFullWidthTranslate ==
    /\ args.fn = "to_full_width"
    /\ pc = "enter"
    /\ ret' = translate(args.text)
    /\ pc' = "katakana"
    /\ UNCHANGED <<args, i, current_x, current_y, char_count, col, n_lines, lines,
                   start, canvas, code, data, run>>

\* `text = re.sub(...)`, `return text`
ToFullWidthKatakana ==
    /\ args.fn = "to_full_width"
    /\ pc = "katakana"
    /\ ret' = replace_katakana(ret, 1, <<>>, FALSE)
    /\ pc' = "done"
    /\ UNCHANGED <<args, i, current_x, current_y, char_count, col, n_lines, lines,
                   start, canvas, code, data, run>>

-----------------------------------------------------------------------------
(* preprocess_data *)

\* The table is a sequence of rows, and a row maps each column name to its
\* cell; the texts of the cells are sequences of code points, as in
\* to_full_width.  Columns are named in Latin letters: sakuhin_keisiki (作品形式),
\* sakusyamei (作者名), sousaku_no_syurui (創作の種類), syakubun (釈文), sakuhinmei
\* (作品名), komento (コメント), each with its _rinsyo (（臨書）) and _sousaku
\* (（創作）) variant, simei (氏名), hurigana (ふりがな), saiteisyutu (再提出),
\* rinsyo_kaisetu (臨書解説), gakubu (学部), gakunen (学年), timestamp
\* (タイムスタンプ), and the derived sakuhin_joho_hojo (作品情報（法帖解説）),
\* gakubu_gakunen (学部学年) and sakuhin_joho (作品情報).  The position a column is
\* inserted at is not modelled.

\* most rows of a table
MaxRows == 2

\* an empty cell of the CSV file, as pandas reads it
NaN == << -1 >>

\* "臨", "創", "無し", "山田", "再提出", "２回以上", "やばいよ"
RIN == << 33256 >>
SOU == << 21109 >>
NASI == << 28961, 12375 >>
YAMADA == << 23665, 30000 >>
SAITEISYUTU == << 20877, 25552, 20986 >>
NIKAI_IZYOU == << 65298, 22238, 20197, 19978 >>
YABAIYO == << 12420, 12400, 12356, 12424 >>

\* the text of k times the character c
Rep(c, k) == [ j \in 1..k |-> c ]

\* The k-th row of an input table, for a work type t and an author w.  Every
\* other cell is a text that no other row and no other column holds, so that a
\* value taken from the wrong row or column shows.
InputRow(k, t, w) ==
    ("timestamp" :> Rep(49, k)) @@
    ("simei" :> Rep(23665, k)) @@
    ("hurigana" :> Rep(12420, k)) @@
    ("gakubu" :> Rep(25991, k)) @@
    ("gakunen" :> Rep(19968, k)) @@
    ("sakuhin_keisiki" :> t) @@
    ("sakusyamei" :> w) @@
    ("sousaku_no_syurui" :> Rep(20206, k)) @@
    ("syakubun_rinsyo" :> Rep(12354, k)) @@
    ("syakubun_sousaku" :> Rep(12356, k)) @@
    ("sakuhinmei_rinsyo" :> Rep(26716, k)) @@
    ("sakuhinmei_sousaku" :> Rep(26757, k)) @@
    ("komento_rinsyo" :> Rep(12358, k)) @@
    ("komento_sousaku" :> Rep(12360, k)) @@
    ("rinsyo_kaisetu" :> IF k = 1 THEN << 65, 32, 65398 >> ELSE NaN) @@
    ("saiteisyutu" :> CASE k = 1 -> SAITEISYUTU [] k = 2 -> NIKAI_IZYOU [] OTHER -> NaN)

WorkTypes == { RIN, SOU, NaN }

Writers == { NaN, NASI, YAMADA }

\* the columns of the CSV file that preprocess_data reads
INPUT_COLUMNS == DOMAIN InputRow(1, RIN, NaN)

\* the tables read from a CSV file: with every column, and, of one row, with
\* one column absent
Tables ==
    UNION { { [ k \in 1..n |-> InputRow(k, t[k], w[k]) ] :
                t \in [1..n -> WorkTypes], w \in [1..n -> Writers] } :
            n \in 1..MaxRows }
    \cup { << [ c \in INPUT_COLUMNS \ {absent} |-> InputRow(1, t, w)[c] ] >> :
             absent \in INPUT_COLUMNS, t \in WorkTypes, w \in Writers }

CallsPreprocessData == { [ fn |-> "preprocess_data", data |-> d ] : d \in Tables }

\* data.columns
Columns(d) == DOMAIN d[1]

\* `str(row.get(column, "") or "")`
Get(row, column) == IF column \in DOMAIN row THEN row[column] ELSE << >>

\* the row with the cell of a column set (the column is added when missing)
Put(row, column, value) == (column :> value) @@ row

\* data.drop(columns=..., inplace=True), for one row
Drop(row, columns) == [ c \in (DOMAIN row) \ columns |-> row[c] ]

\* fillna(''), for one cell
fillna(value) == IF value = NaN THEN << >> ELSE value

\* `data['臨書解説'] = data['臨書解説'].fillna('').astype(str).apply(to_full_width)`
\* when the table has the column
PreprocessFullWidth ==
    /\ args.fn = "preprocess_data"
    /\ pc = "enter"
    /\ data' = IF "rinsyo_kaisetu" \in Columns(data)
               THEN [ k \in 1..Len(data) |->
                        Put(data[k], "rinsyo_kaisetu",
                            to_full_width(fillna(data[k].rinsyo_kaisetu))) ]
               ELSE data
    /\ pc' = "fillna"
    /\ UNCHANGED <<args, i, current_x, current_y, char_count, col, n_lines, lines,
                   start, canvas, ret, code, run>>

\* `data = data.fillna('')`
PreprocessFillna ==
    /\ args.fn = "preprocess_data"
    /\ pc = "fillna"
    /\ data' = [ k \in 1..Len(data) |->
                   [ c \in DOMAIN data[k] |-> fillna(data[k][c]) ] ]
    /\ i' = 0
    /\ pc' = "format_df"
    /\ UNCHANGED <<args, current_x, current_y, char_count, col, n_lines, lines,
                   start, canvas, ret, code, run>>

\* the columns the loop of format_df reads by `row[...]` for a row: a column
\* that is absent raises KeyError there
format_columns(row) ==
    IF Get(row, "sakuhin_keisiki") = RIN
    THEN { "syakubun_rinsyo", "sakuhinmei_rinsyo", "komento_rinsyo" }
    ELSE { "syakubun_sousaku", "sakuhinmei_sousaku", "komento_sousaku" }

\* format_row taking the 創作 variants whatever the work type
format_row_always_sousaku(row) ==
    Put(Put(Put(row, "syakubun", row.syakubun_sousaku),
            "sakuhinmei", row.sakuhinmei_sousaku),
        "komento", row.komento_sousaku)

\* the body of the loop of format_df: the three cells of the row are set from
\* its （臨書） variants when its work type is "臨", else from its （創作） ones
format_row(row) ==
    LET work_type == Get(row, "sakuhin_keisiki")
    IN  IF work_type = RIN
        THEN Put(Put(Put(row, "syakubun", row.syakubun_rinsyo),
                     "sakuhinmei", row.sakuhinmei_rinsyo),
                 "komento", row.komento_rinsyo)
        ELSE Put(Put(Put(row, "syakubun", row.syakubun_sousaku),
                     "sakuhinmei", row.sakuhinmei_sousaku),
                 "komento", row.komento_sousaku)

\* One iteration of `for idx, row in data.iterrows()`: row idx of the table is
\* written while the iteration goes on.  A column that data.at adds is added
\* to every row; the rows not reached yet hold NaN in it.
FormatDfRow ==
    /\ args.fn = "preprocess_data"
    /\ pc = "format_df"
    /\ i < Len(data)
    /\ format_columns(data[i + 1]) \subseteq DOMAIN data[i + 1]
    /\ LET new == format_row(data[i + 1])
           added == (DOMAIN new) \ (DOMAIN data[i + 1])
       IN  data' = [ k \in 1..Len(data) |->
                       IF k = i + 1 THEN new
                       ELSE [ c \in added |-> NaN ] @@ data[k] ]
    /\ i' = i + 1
    /\ UNCHANGED <<args, pc, current_x, current_y, char_count, col, n_lines, lines,
                   start, canvas, ret, code, run>>

\* combine_work_name_for_exp without the "無し" case
combine_work_name_for_exp_by_type(row) ==
    IF Get(row, "sakuhin_keisiki") = RIN
    THEN Get(row, "sakusyamei") \o << 12300 >> \o Get(row, "sakuhinmei") \o << 12301 >>
    ELSE << >>

\* combine_work_name_for_exp
combine_work_name_for_exp(row) ==
    LET work_type == Get(row, "sakuhin_keisiki")
        work_name == Get(row, "sakuhinmei")
        writer_name == Get(row, "sakusyamei")
    IN  IF writer_name = NASI
        THEN << 12300 >> \o work_name \o << 12301 >>
        ELSE IF work_type = RIN
        THEN writer_name \o << 12300 >> \o work_name \o << 12301 >>
        ELSE << >>

\* the loop of format_df ends, and
\* `data["作品情報（法帖解説）"] = data.apply(combine_work_name_for_exp, axis=1)`
PreprocessCombineForExp ==
    /\ args.fn = "preprocess_data"
    /\ pc = "format_df"
    /\ i = Len(data)
    /\ data' = [ k \in 1..Len(data) |->
                   Put(data[k], "sakuhin_joho_hojo", combine_work_name_for_exp(data[k])) ]
    /\ pc' = "gakubu_gakunen"
    /\ UNCHANGED <<args, i, current_x, current_y, char_count, col, n_lines, lines,
                   start, canvas, ret, code, run>>

\* f"{gakubu} {gakunen}"
gakubu_gakunen(row) == Get(row, "gakubu") \o << 32 >> \o Get(row, "gakunen")

\* the タイムスタンプ column is dropped when there is one; 学部 and 学年, when the
\* table has both, are joined into 学部学年 and dropped
PreprocessGakubuGakunen ==
    /\ args.fn = "preprocess_data"
    /\ pc = "gakubu_gakunen"
    /\ LET d1 == [ k \in 1..Len(data) |-> Drop(data[k], {"timestamp"}) ]
       IN  data' = IF {"gakubu", "gakunen"} \subseteq Columns(d1)
                   THEN [ k \in 1..Len(d1) |->
                            Drop(Put(d1[k], "gakubu_gakunen", gakubu_gakunen(d1[k])),
                                 {"gakubu", "gakunen"}) ]
                   ELSE d1
    /\ pc' = "sakuhin_joho"
    /\ UNCHANGED <<args, i, current_x, current_y, char_count, col, n_lines, lines,
                   start, canvas, ret, code, run>>

\* combine_work_name with the work type where the creation type belongs
combine_work_name_by_type(row) ==
    LET work_name == Get(row, "sakuhinmei")
        work_type == Get(row, "sakuhin_keisiki")
        work_writer == Get(row, "sakusyamei")
    IN  IF work_writer = << >> \/ work_writer = NASI
        THEN work_type \o << 12288, 12300 >> \o work_name \o << 12301 >>
        ELSE work_type \o << 12288 >> \o work_writer \o << 12288, 12300 >>
             \o work_name \o << 12301 >>

\* combine_work_name
combine_work_name(row) ==
    LET work_name == Get(row, "sakuhinmei")
        work_type == Get(row, "sakuhin_keisiki")
        work_writer == Get(row, "sakusyamei")
        creation_type == Get(row, "sousaku_no_syurui")
    IN  IF work_writer = << >>
        THEN creation_type \o << 12288, 12300 >> \o work_name \o << 12301 >>
        ELSE IF work_writer = NASI
        THEN work_type \o << 12288, 12300 >> \o work_name \o << 12301 >>
        ELSE work_type \o << 12288 >> \o work_writer \o << 12288, 12300 >>
             \o work_name \o << 12301 >>

\* `if "作品名" in data.columns and "作品形式" in data.columns:` 作品情報 is made
\* and 作品形式, 作品名 and 作者名 are dropped
PreprocessCombineWorkName ==
    /\ args.fn = "preprocess_data"
    /\ pc = "sakuhin_joho"
    /\ data' = IF {"sakuhinmei", "sakuhin_keisiki"} \subseteq Columns(data)
               THEN [ k \in 1..Len(data) |->
                        Drop(Put(data[k], "sakuhin_joho", combine_work_name(data[k])),
                             {"sakuhin_keisiki", "sakuhinmei", "sakusyamei"}) ]
               ELSE data
    /\ pc' = "hurigana"
    /\ UNCHANGED <<args, i, current_x, current_y, char_count, col, n_lines, lines,
                   start, canvas, ret, code, run>>

\* f"（{hurigana}）"
hurigana(row) == << 65288 >> \o Get(row, "hurigana") \o << 65289 >>

\* resubmission
resubmission(row) ==
    LET resub == Get(row, "saiteisyutu")
    IN  IF resub = SAITEISYUTU THEN SAITEISYUTU
        ELSE IF resub = NIKAI_IZYOU THEN YABAIYO
        ELSE << >>

\* the ふりがな and 再提出 columns are rewritten
PreprocessHuriganaResubmission ==
    /\ args.fn = "preprocess_data"
    /\ pc = "hurigana"
    /\ data' = [ k \in 1..Len(data) |->
                   Put(Put(data[k], "hurigana", hurigana(data[k])),
                       "saiteisyutu", resubmission(data[k])) ]
    /\ pc' = "return"
    /\ UNCHANGED <<args, i, current_x, current_y, char_count, col, n_lines, lines,
                   start, canvas, ret, code, run>>

\* `return data`
PreprocessReturn ==
    /\ args.fn = "preprocess_data"
    /\ pc = "return"
    /\ ret' = data
    /\ run' = run + 1
    /\ pc' = "done"
    /\ UNCHANGED <<args, i, current_x, current_y, char_count, col, n_lines, lines,
                   start, canvas, code, data>>

\* preprocess_data is run again, on the table it returned
PreprocessAgain ==
    /\ args.fn = "preprocess_data"
    /\ pc = "done"
    /\ run = 1
    /\ data' = ret
    /\ pc' = "enter"
    /\ UNCHANGED <<args, i, current_x, current_y, char_count, col, n_lines, lines,
                   start, canvas, ret, code, run>>

\* An iteration of the loop of format_df in which `row[...]` raises KeyError:
\* the exception leaves format_df and preprocess_data, which have no handler.
FormatDfKeyError ==
    /\ args.fn = "preprocess_data"
    /\ pc = "format_df"
    /\ i < Len(data)
    /\ ~ (format_columns(data[i + 1]) \subseteq DOMAIN data[i + 1])
    /\ pc' = "raised"
    /\ UNCHANGED <<args, i, current_x, current_y, char_count, col, n_lines, lines,
                   start, canvas, ret, code, data, run>>

-----------------------------------------------------------------------------
(* generate_combined_pdf *)

\* most records of a table handed to generate_combined_pdf
MaxRecords == 3

\* page_canvas.showPage(), as an entry of the list of calls made on the document
show_page == [ op |-> "showPage", row |-> -1, x_offset |-> 0 ]

\* draw_content_blocks(page_canvas, data.iloc[row], x_offset=x_offset)
draw_block(row, x_offset) ==
    [ op |-> "draw_content_blocks", row |-> row, x_offset |-> x_offset ]

\* pair_calls with a page break before every pair, the first included
pair_calls_break_always(idx, len) ==
    <<show_page>>
    \o <<draw_block(idx, 0)>>
    \o (IF idx + 1 < len THEN <<draw_block(idx + 1, OFFSET_X)>> ELSE << >>)

\* the body of `while i < len(data)`: the calls made for the pair that starts
\* at record idx of len records
pair_calls(idx, len) ==
    (IF idx > 0 THEN <<show_page>> ELSE << >>)
    \o <<draw_block(idx, 0)>>
    \o (IF idx + 1 < len THEN <<draw_block(idx + 1, OFFSET_X)>> ELSE << >>)

CallsGenerateCombinedPdf ==
    { [ fn |-> "generate_combined_pdf", len |-> n ] : n \in 0..MaxRecords }

\* one iteration of `while i < len(data)`, `i += 2` included
GenerateCombinedPdfPair ==
    /\ args.fn = "generate_combined_pdf"
    /\ pc = "enter"
    /\ i < args.len
    /\ canvas' = canvas \o pair_calls(i, args.len)
    /\ i' = i + 2
    /\ UNCHANGED <<args, pc, current_x, current_y, char_count, col, n_lines, lines,
                   start, ret, code, data, run>>

\* `page_canvas.save()`, which closes the page in progress
GenerateCombinedPdfSave ==
    /\ args.fn = "generate_combined_pdf"
    /\ pc = "enter"
    /\ i >= args.len
    /\ canvas' = Append(canvas, [ op |-> "save", row |-> -1, x_offset |-> 0 ])
    /\ pc' = "done"
    /\ UNCHANGED <<args, i, current_x, current_y, char_count, col, n_lines, lines,
                   start, ret, code, data, run>>

\* an iteration in which draw_content_blocks raises, for the first record of
\* the pair or for the second: the exception leaves generate_combined_pdf, which
\* has no handler, before `page_canvas.save()`
GenerateCombinedPdfRaise ==
    /\ args.fn = "generate_combined_pdf"
    /\ pc = "enter"
    /\ i < args.len
    /\ \E n \in 1..Len(pair_calls(i, args.len)) :
         /\ pair_calls(i, args.len)[n].op = "draw_content_blocks"
         /\ canvas' = canvas \o SubSeq(pair_calls(i, args.len), 1, n)
    /\ pc' = "raised"
    /\ UNCHANGED <<args, i, current_x, current_y, char_count, col, n_lines, lines,
                   start, ret, code, data, run>>

-----------------------------------------------------------------------------
(* generate_individual_pdfs *)

\* the characters re.sub(r'[\\/*?:"<>|]', "", ...) removes
ILLEGAL_FILENAME_CHARS == { "\\", "/", "*", "?", ":", "\"", "<", ">", "|" }

\* `safe_filename = re.sub(r'[\\/*?:"<>|]', "", student_name+" "+work_name) + ".pdf"`
safe_filename(student_name, work_name) ==
    LET legal(c) == c \notin ILLEGAL_FILENAME_CHARS
    IN  SelectSeq(student_name \o <<" ">> \o work_name, legal)
        \o <<".", "p", "d", "f">>

\* The records of the table: the 氏名 (simei) and 作品情報 (sakuhin_joho) cells,
\* as texts of characters.  Two students, one of them also written with a
\* character a file name cannot hold, and two works.
Records ==
    { [ simei |-> n, sakuhin_joho |-> w ] :
        n \in { <<"U+5C71">>, <<"U+7530">>, <<"U+5C71", "/">> },
        w \in { <<"U+685C">>, <<"U+6885">> } }

CallsGenerateIndividualPdfs ==
    { [ fn |-> "generate_individual_pdfs", rows |-> r ] :
        r \in SeqsUpTo(Records, MaxRecords) }

\* the calls one iteration of `for index, row in data.iterrows()` makes: the
\* document is opened at pdf_path, the record is drawn, the document is saved
individual_calls(index, row) ==
    LET pdf_path == safe_filename(row.simei, row.sakuhin_joho)
    IN  << [ op |-> "Canvas", row |-> index, path |-> pdf_path ],
           [ op |-> "draw_content_blocks", row |-> index, path |-> pdf_path ],
           [ op |-> "save", row |-> index, path |-> pdf_path ] >>

\* one iteration of `for index, row in data.iterrows()`
GenerateIndividualPdf ==
    /\ args.fn = "generate_individual_pdfs"
    /\ pc = "enter"
    /\ i < Len(args.rows)
    /\ canvas' = canvas \o individual_calls(i, args.rows[i + 1])
    /\ i' = i + 1
    /\ UNCHANGED <<args, pc, current_x, current_y, char_count, col, n_lines, lines,
                   start, ret, code, data, run>>

\* an iteration in which draw_content_blocks raises: the exception leaves
\* generate_individual_pdfs, which has no handler, before `page_canvas.save()`
GenerateIndividualPdfRaise ==
    /\ args.fn = "generate_individual_pdfs"
    /\ pc = "enter"
    /\ i < Len(args.rows)
    /\ canvas' = canvas \o SubSeq(individual_calls(i, args.rows[i + 1]), 1, 2)
    /\ pc' = "raised"
    /\ UNCHANGED <<args, i, current_x, current_y, char_count, col, n_lines, lines,
                   start, ret, code, data, run>>

\* the loop ends: messagebox.showinfo, return
GenerateIndividualPdfsReturn ==
    /\ args.fn = "generate_individual_pdfs"
    /\ pc = "enter"
    /\ i = Len(args.rows)
    /\ pc' = "done"
    /\ UNCHANGED <<args, i, current_x, current_y, char_count, col, n_lines, lines,
                   start, canvas, ret, code, data, run>>

-----------------------------------------------------------------------------
(* main *)

\* What the environment answers in one run of main: whether the operator
\* chooses a CSV file, how pd.read_csv ends with each encoding, how
\* preprocess_data and the registration of the fonts end, the answer to
\* askyesno and whether the operator chooses a path for the combined document.
CallsMain ==
    { [ fn |-> "main", csv_path |-> c, utf_8 |-> u, shift_jis |-> s,
        preprocess_data |-> p, registerFont |-> f, create_individual |-> m,
        pdf_path |-> o ] :
        c \in BOOLEAN,
        u \in { "ok", "FileNotFoundError", "UnicodeDecodeError", "Exception" },
        s \in { "ok", "UnicodeDecodeError" },
        p \in { "ok", "KeyError" },
        f \in { "ok", "Exception" },
        m \in BOOLEAN,
        o \in BOOLEAN }

\* a call main makes, as an entry of the list of calls
main_call(op, arg) == [ op |-> op, arg |-> arg ]

\* `csv_path = filedialog.askopenfilename(...)`, `if not csv_path: return`
MainAskOpenFilename ==
    /\ args.fn = "main"
    /\ pc = "enter"
    /\ pc' = IF args.csv_path THEN "read_csv" ELSE "done"
    /\ UNCHANGED <<args, i, current_x, current_y, char_count, col, n_lines, lines,
                   start, canvas, ret, code, data, run>>

\* the try statement around pd.read_csv: FileNotFoundError and any other
\* exception but UnicodeDecodeError are shown and main returns; on
\* UnicodeDecodeError the file is read again as shift-jis, inside the handler,
\* where an exception is caught by nothing
MainReadCsv ==
    /\ args.fn = "main"
    /\ pc = "read_csv"
    /\ LET utf_8 == main_call("read_csv", args.utf_8)
           shift_jis == main_call("read_csv", args.shift_jis)
       IN  CASE args.utf_8 = "ok" ->
                  /\ canvas' = canvas \o <<utf_8>>
                  /\ pc' = "preprocess_data"
             [] args.utf_8 = "UnicodeDecodeError" ->
                  /\ canvas' = canvas \o <<utf_8, shift_jis>>
                  /\ pc' = IF args.shift_jis = "ok" THEN "preprocess_data"
                           ELSE "raised"
             [] OTHER ->
                  /\ canvas' = canvas \o <<utf_8, main_call("showerror", "read_csv")>>
                  /\ pc' = "done"
    /\ UNCHANGED <<args, i, current_x, current_y, char_count, col, n_lines, lines,
                   start, ret, code, data, run>>

\* `data = preprocess_data(data)`, outside any try statement
MainPreprocessData ==
    /\ args.fn = "main"
    /\ pc = "preprocess_data"
    /\ canvas' = Append(canvas, main_call("preprocess_data", args.preprocess_data))
    /\ pc' = IF args.preprocess_data = "ok" THEN "registerFont" ELSE "raised"
    /\ UNCHANGED <<args, i, current_x, current_y, char_count, col, n_lines, lines,
                   start, ret, code, data, run>>

\* the try statement around the three pdfmetrics.registerFont calls: any
\* exception is shown and main returns
MainRegisterFont ==
    /\ args.fn = "main"
    /\ pc = "registerFont"
    /\ IF args.registerFont = "ok"
       THEN /\ canvas' = Append(canvas, main_call("registerFont", "ok"))
            /\ pc' = "askyesno"
       ELSE /\ canvas' = canvas \o << main_call("registerFont", args.registerFont),
                                      main_call("showerror", "registerFont") >>
            /\ pc' = "done"
    /\ UNCHANGED <<args, i, current_x, current_y, char_count, col, n_lines, lines,
                   start, ret, code, data, run>>

\* `create_individual = messagebox.askyesno(...)` and the branch it selects:
\* the output directory and the documents of the records, or the combined
\* document when the operator chooses a path for it
MainGenerate ==
    /\ args.fn = "main"
    /\ pc = "askyesno"
    /\ canvas' = canvas \o
         (IF args.create_individual
          THEN << main_call("makedirs", "nameplate"),
                  main_call("generate_individual_pdfs", "nameplate") >>
          ELSE IF args.pdf_path
               THEN << main_call("generate_combined_pdf", "pdf_path") >>
               ELSE << >>)
    /\ pc' = "done"
    /\ UNCHANGED <<args, i, current_x, current_y, char_count, col, n_lines, lines,
                   start, ret, code, data, run>>

-----------------------------------------------------------------------------
(* The specification. *)

Calls ==
    CallsCalculateWrapCount
    \cup CallsDrawVerticalTextWithWrap
    \cup CallsDrawVerticalText
    \cup CallsDrawNameAndFurigana
    \cup CallsDrawHorizontalText
    \cup CallsDrawHorizontalTextWithWrap
    \cup CallsDrawCenteredHorizontalTextWithWrap
    \cup CallsDrawContentBlocks
    \cup CallsToFullWidth
    \cup CallsPreprocessData
    \cup CallsGenerateCombinedPdf
    \cup CallsGenerateIndividualPdfs
    \cup CallsMain

Init ==
    /\ args \in Calls
    /\ pc = IF args.fn = "calculate_wrap_count" THEN "loop" ELSE "enter"
    /\ i = 0
    /\ current_x = 0
    /\ current_y = 0
    /\ char_count = 0
    /\ col = 0
    /\ n_lines = 1
    /\ lines = <<>>
    /\ start = 0
    /\ canvas = <<>>
    /\ ret = IF args.fn \in {"to_full_width", "preprocess_data"} THEN << >> ELSE 0
    /\ code = <<>>
    /\ data = IF args.fn = "preprocess_data" THEN args.data ELSE <<>>
    /\ run = 0

Next ==
    \/ CalculateWrapCountEmpty
    \/ CalculateWrapCountStep
    \/ CalculateWrapCountReturn
    \/ DrawVerticalTextWithWrapEnter
    \/ DrawVerticalTextWithWrapStep
    \/ DrawVerticalTextWithWrapReturn
    \/ DrawVerticalTextEnter
    \/ DrawVerticalTextStep
    \/ DrawVerticalTextReturn
    \/ DrawNameAndFuriganaEnter
    \/ DrawNameStep
    \/ DrawNameGap
    \/ DrawFuriganaStep
    \/ DrawNameAndFuriganaReturn
    \/ DrawHorizontalText
    \/ DrawHorizontalTextWithWrapEnter
    \/ DrawHorizontalTextWithWrapSplit
    \/ DrawHorizontalTextWithWrapSplitDone
    \/ DrawHorizontalTextWithWrapDraw
    \/ DrawHorizontalTextWithWrapReturn
    \/ DrawCenteredHorizontalTextWithWrapEnter
    \/ DrawCenteredHorizontalTextWithWrapSplit
    \/ DrawCenteredHorizontalTextWithWrapSplitDone
    \/ DrawCenteredHorizontalTextWithWrapDraw
    \/ DrawCenteredHorizontalTextWithWrapReturn
    \/ DrawContentBlocksAnchor
    \/ ToFullWidthTranslate
    \/ ToFullWidthKatakana
    \/ PreprocessFullWidth
    \/ PreprocessFillna
    \/ FormatDfRow
    \/ FormatDfKeyError
    \/ PreprocessCombineForExp
    \/ PreprocessGakubuGakunen
    \/ PreprocessCombineWorkName
    \/ PreprocessHuriganaResubmission
    \/ PreprocessReturn
    \/ PreprocessAgain
    \/ GenerateCombinedPdfPair
    \/ GenerateCombinedPdfSave
    \/ GenerateCombinedPdfRaise
    \/ GenerateIndividualPdf
    \/ GenerateIndividualPdfRaise
    \/ GenerateIndividualPdfsReturn
    \/ MainAskOpenFilename
    \/ MainReadCsv
    \/ MainPreprocessData
    \/ MainRegisterFont
    \/ MainGenerate

Spec == Init /\ [][Next]_vars

\* The splitting loops of the two horizontal wrapping functions are sequential
\* code: an iteration that can run does run.
LiveSpec ==
    /\ Spec
    /\ WF_vars(DrawHorizontalTextWithWrapSplit)
    /\ WF_vars(DrawHorizontalTextWithWrapSplitDone)
    /\ WF_vars(DrawCenteredHorizontalTextWithWrapSplit)
    /\ WF_vars(DrawCenteredHorizontalTextWithWrapSplitDone)

-----------------------------------------------------------------------------
(* Claims. *)

HasNoBreakOrProhibited(text) ==
    \A k \in 1..Len(text) : text[k] # "\n" /\ text[k] \notin LEADING_PROHIBITED_CHARS

\* C1: for a text of length L >= 1 with no line-leading-prohibited character
\* and no line break, and a wrap width W >= 1, calculate_wrap_count returns
\* ceil(L / W) - 1 (a text that exactly fills its last column counts no extra
\* segment); for the empty text it returns 0.
C1_WrapCountClosedForm ==
    (args.fn = "calculate_wrap_count" /\ pc = "done"
        /\ HasNoBreakOrProhibited(args.text))
    => IF args.text = <<>>
       THEN ret = 0
       ELSE ret = ((Len(args.text) + args.max_chars - 1) \div args.max_chars) - 1

\* C1 witness: a text that exactly fills two columns has been counted.
C1_Witness ==
    /\ args.fn = "calculate_wrap_count"
    /\ pc = "done"
    /\ HasNoBreakOrProhibited(args.text)
    /\ Len(args.text) = 2 * args.max_chars
    /\ args.max_chars = 2
    /\ ret = 1

-----------------------------------------------------------------------------
(* Claims about draw_vertical_text_with_wrap. *)

InVWrap == args.fn = "draw_vertical_text_with_wrap"

\* font_size * char_spacing of the running call
Pitch == Mul(args.font_size, args.char_spacing)

\* The drawn character r met a full column (char_count had reached
\* max_chars_per_line when its iteration began) and is line-leading-prohibited.
MetFullColumnProhibited(r) ==
    r.count_in >= args.max_chars_per_line /\ r.char \in LEADING_PROHIBITED_CHARS

\* column x and row y of a drawn character: its draw position less the offsets
\* of the adjustment entry that applies to it
BaseX(r) ==
    r.x - wrap_adj(MetFullColumnProhibited(r), args.adjustments, r.char).x_offset

BaseY(r) ==
    r.y - wrap_adj(MetFullColumnProhibited(r), args.adjustments, r.char).y_offset

\* C2: a line-leading-prohibited character that meets a full column is drawn
\* in that column, at the column x of the character before it, and the move to
\* the next column is made only after it has been drawn.
C2_HangingDrawnInCurrentColumn ==
    InVWrap =>
      /\ \A k \in 1..Len(canvas) :
           MetFullColumnProhibited(canvas[k]) =>
             /\ k > 1
             /\ canvas[k - 1].idx = canvas[k].idx - 1
             /\ canvas[k].col = canvas[k - 1].col
             /\ BaseX(canvas[k]) = BaseX(canvas[k - 1])
      /\ (/\ canvas # <<>>
          /\ MetFullColumnProhibited(canvas[Len(canvas)])
          /\ i = canvas[Len(canvas)].idx + 1)
         => /\ col = canvas[Len(canvas)].col + 1
            /\ current_x = BaseX(canvas[Len(canvas)]) - args.line_spacing

\* C2 witness: a prohibited character has been hung under a full column of two
\* and the next character has been drawn one column further left.
C2_Witness ==
    /\ InVWrap
    /\ args.max_chars_per_line = 2
    /\ Len(canvas) = 4
    /\ MetFullColumnProhibited(canvas[3])
    /\ canvas[3].col = 0
    /\ canvas[4].col = 1

\* C3: calculate_wrap_count(text, W) is the column index of the last character
\* draw_vertical_text_with_wrap draws for the same text and W (wrap count + 1
\* is the number of columns the renderer spans).
C3_WrapCountIsLastColumn ==
    (InVWrap /\ pc = "done" /\ canvas # <<>>)
    => calculate_wrap_count(args.text, args.max_chars_per_line)
         = canvas[Len(canvas)].col

\* C4: a character that does not hang is drawn at
\* (x - c * line_spacing + dx, y - r * font_size * char_spacing + dy), c the
\* number of column advances so far, 0 <= r < max_chars the characters already
\* in the column and (dx, dy) its adjustment (zero without an entry); an
\* overflow advance moves one line_spacing left and back to the top.
C4_RegularCharPosition ==
    InVWrap =>
      \A k \in 1..Len(canvas) :
        LET r == canvas[k]
            adj == IF r.char \in DOMAIN Table(args.adjustments)
                   THEN Table(args.adjustments)[r.char]
                   ELSE [x_offset |-> 0, y_offset |-> 0]
        IN  ~MetFullColumnProhibited(r) =>
              /\ r.char_count >= 0
              /\ r.char_count < args.max_chars_per_line
              /\ r.x = args.x - r.col * args.line_spacing + adj.x_offset
              /\ r.y = args.y - r.char_count * Pitch + adj.y_offset
              /\ r.count_in >= args.max_chars_per_line =>
                   /\ k > 1
                   /\ r.col = canvas[k - 1].col + 1
                   /\ r.char_count = 0
                   /\ BaseX(r) = BaseX(canvas[k - 1]) - args.line_spacing
                   /\ BaseY(r) = args.y

\* C4 witness: the third regular character of a text overflowed a column of
\* two and sits at the top of the next column, and a character with a
\* non-zero adjustment has been drawn in the second row.
C4_Witness ==
    /\ InVWrap
    /\ args.max_chars_per_line = 2
    /\ Len(canvas) = 3
    /\ canvas[2].char = "U+300C"
    /\ canvas[2].char_count = 1
    /\ canvas[3].count_in = 2
    /\ ~MetFullColumnProhibited(canvas[3])
    /\ canvas[3].col = 1

\* C5: every line break, whatever the row count, moves the column one
\* line_spacing to the left, resets the vertical position to the top and the
\* row counter to 0, and is itself never drawn.
C5_LineBreakForcesColumn ==
    [][ (/\ InVWrap
         /\ pc = "loop"
         /\ i < Len(args.text)
         /\ args.text[i + 1] = "\n")
        => /\ current_x' = current_x - args.line_spacing
           /\ current_y' = args.y
           /\ char_count' = 0
           /\ canvas' = canvas
           /\ i' = i + 1 ]_vars

\* C5 witness: two line breaks in a row, the first met in the second row of a
\* column, have each advanced the column, and the next character is drawn at
\* the top of the third column.
C5_Witness ==
    /\ InVWrap
    /\ pc = "done"
    /\ args.max_chars_per_line = 2
    /\ args.text = <<"U+6F22", "\n", "\n", "U+3002">>
    /\ Len(canvas) = 2
    /\ canvas[2].col = 2
    /\ canvas[2].char_count = 0
    /\ canvas[2].y = args.y + 500

\* C6 as claimed: the row of a hanging character (its draw position less its
\* adjustment offset, the one-pitch upward shift included) is lower than the
\* row of the last regular character of its column.
C6_HangingBelowLastRow ==
    InVWrap =>
      \A k \in 2..Len(canvas) :
        MetFullColumnProhibited(canvas[k]) => BaseY(canvas[k]) < BaseY(canvas[k - 1])

\* C6 amended: the row of a hanging character is the row of the last regular
\* (max_chars-th) character of its column, y - (max_chars - 1) * pitch: the
\* upward shift of one pitch puts it level with that character, and only its
\* hanging adjustment offsets set the two apart.
C6_HangingLevelWithLastRow ==
    InVWrap =>
      \A k \in 1..Len(canvas) :
        MetFullColumnProhibited(canvas[k]) =>
          /\ k > 1
          /\ canvas[k - 1].char_count = args.max_chars_per_line - 1
          /\ canvas[k - 1].col = canvas[k].col
          /\ BaseY(canvas[k]) = BaseY(canvas[k - 1])
          /\ BaseY(canvas[k]) = args.y - (args.max_chars_per_line - 1) * Pitch

\* C6 witness: a full stop hangs under a full column of two.
C6_Witness ==
    /\ InVWrap
    /\ args.max_chars_per_line = 2
    /\ Len(canvas) = 3
    /\ canvas[3].char = "U+3002"
    /\ MetFullColumnProhibited(canvas[3])
    /\ canvas[3].y = args.y - Pitch - 200

-----------------------------------------------------------------------------
(* Claims about the horizontal wrapping functions. *)

InHorizontalWrap ==
    args.fn \in { "draw_horizontal_text_with_wrap",
                  "draw_centered_horizontal_text_with_wrap" }

\* C7: every line produced has at most max_chars + 1 characters, and one of
\* max_chars + 1 characters ends with a line-leading-prohibited character (the
\* one found right after the would-be break point and kept on the line).
C7_LineLengthBound ==
    InHorizontalWrap =>
      \A k \in 1..Len(lines) :
        /\ Len(lines[k]) <= args.max_chars_per_line + 1
        /\ Len(lines[k]) = args.max_chars_per_line + 1
           => lines[k][Len(lines[k])] \in LEADING_PROHIBITED_CHARS

\* C7 witness: with max_chars 2 a first line of three characters was cut, its
\* last one prohibited, and the rest of the text went to a second line.
C7_Witness ==
    /\ InHorizontalWrap
    /\ args.max_chars_per_line = 2
    /\ Len(lines) = 2
    /\ Len(lines[1]) = 3
    /\ lines[1][3] \in LEADING_PROHIBITED_CHARS
    /\ Len(lines[2]) = 1

\* C8: no line handed to the drawing call contains a line-break character.
C8_NoLineBreakInDrawnLine ==
    InHorizontalWrap =>
      \A k \in 1..Len(canvas) :
        \A j \in 1..Len(canvas[k].line) : canvas[k].line[j] # "\n"

\* the lines produced so far, concatenated in order, with seps[k] put back
\* after line k
Joined(seps) ==
    LET j[k \in 0..Len(lines)] ==
          IF k = 0 THEN << >> ELSE j[k - 1] \o lines[k] \o seps[k]
    IN  j[Len(lines)]

\* C27: in both horizontal wrapping functions the lines produced, concatenated
\* in order, are the text read so far (all of it once the loop has ended) with
\* nothing removed but line breaks that ended a line: putting a line break
\* back after some of the lines gives the text again.
C27_LinesRejoinToText ==
    (InHorizontalWrap /\ pc # "enter") =>
        /\ \E seps \in [1..Len(lines) -> { << >>, <<"\n">> }] :
             Joined(seps) = Slice(args.text, 0, start)
        /\ pc \in {"draw", "done"} => start = Len(args.text)

\* C27 witness: of a text with two line breaks the first ended a line and was
\* removed, the second did not and is kept inside the second line.
C27_Witness ==
    /\ InHorizontalWrap
    /\ pc = "done"
    /\ Len(args.text) = 4
    /\ Len(lines) = 2
    /\ Len(lines[1]) + Len(lines[2]) = 3
    /\ lines[2][Len(lines[2])] = "\n"

\* C28: the line-splitting loop of the horizontal wrapping functions
\* terminates: every iteration moves start forward, never past the end of the
\* text, at most len(text) lines are produced, and the loop is left.
C28_SplitLoopTerminates ==
    /\ [][(InHorizontalWrap /\ pc = "loop" /\ pc' = "loop")
            => (start < start' /\ start' <= Len(args.text))]_vars
    /\ [](InHorizontalWrap => Len(lines) <= Len(args.text))
    /\ (InHorizontalWrap /\ pc = "loop") ~> (pc = "draw")

\* C28 witness: the loop has ended after four iterations on a text of four
\* characters.
C28_Witness ==
    /\ InHorizontalWrap
    /\ pc = "draw"
    /\ Len(args.text) = 4
    /\ Len(lines) = 4
    /\ start = 4

-----------------------------------------------------------------------------
(* Claims about draw_vertical_text and about rotation. *)

\* C9: draw_vertical_text draws the i-th character (0-based) of the text at
\* (x + dx, y - i * font_size * char_spacing + dy), (dx, dy) its entry in the
\* adjustment map or (0, 0); every character is drawn, in the one column x.
C9_VerticalTextPositions ==
    args.fn = "draw_vertical_text" =>
      /\ Len(canvas) = i
      /\ pc = "done" => Len(canvas) = Len(args.text)
      /\ \A k \in 1..Len(canvas) :
           LET r == canvas[k]
               has == r.char \in DOMAIN Table(args.adjustments)
               dx == IF has THEN Table(args.adjustments)[r.char].x_offset ELSE 0
               dy == IF has THEN Table(args.adjustments)[r.char].y_offset ELSE 0
           IN  /\ r.char = args.text[k]
               /\ r.x = args.x + dx
               /\ r.y = args.y - (k - 1) * Mul(args.font_size, args.char_spacing) + dy

\* C9 witness: a four-character text has been drawn whole, its fourth
\* character one with an adjustment entry and its second a line break.
C9_Witness ==
    /\ args.fn = "draw_vertical_text"
    /\ pc = "done"
    /\ args.adjustments = "WORK_INFO_ADJUSTMENTS"
    /\ Len(canvas) = 4
    /\ canvas[2].char = "\n"
    /\ canvas[4].char = "U+300C"
    /\ canvas[4].x = args.x + 1000
    /\ canvas[4].y = args.y - 3 * 1800 + 1400

\* C10: in draw_vertical_text, draw_vertical_text_with_wrap and
\* draw_name_and_furigana, whatever the adjustment map, a character is drawn
\* rotated by the 'angle' of its adjustment entry when the entry has one, else
\* by 270 degrees when it is in ROTATED_CHARS, else unrotated.
C10_RotationFollowsAngleEntry ==
    args.fn \in { "draw_vertical_text", "draw_vertical_text_with_wrap",
                  "draw_name_and_furigana" } =>
      \A k \in 1..Len(canvas) :
        LET r == canvas[k]
            has == r.char \in DOMAIN Table(args.adjustments)
        IN  IF has /\ "angle" \in DOMAIN Table(args.adjustments)[r.char]
            THEN r.rotated /\ r.angle = Table(args.adjustments)[r.char].angle
            ELSE IF r.char \in ROTATED_CHARS
                 THEN r.rotated /\ r.angle = 270
                 ELSE ~r.rotated

-----------------------------------------------------------------------------
(* Typeface and emulated bold. *)

\* the positions of the operator stream that hold a drawString
DrawOps == { k \in 1..Len(code) : code[k].op = "drawString" }

\* the characters a drawString hands over: the one character of a vertical
\* layout loop, or every character of a horizontal line
DrawnChars(k) ==
    LET r == canvas[code[k].arg]
    IN  IF "line" \in DOMAIN r
        THEN { r.line[j] : j \in 1..Len(r.line) }
        ELSE { r.char }

\* the typeface in effect at position k: that of the last setFont before it
FontAt(k) ==
    LET sets == { j \in 1..(k - 1) : code[j].op = "setFont" }
    IN  code[CHOOSE j \in sets : \A h \in sets : h <= j].arg.font

\* C11: in every layout mode, every character drawn is drawn in the typeface
\* SPECIAL_CHARS_FONT_MAP gives it, or in DEFAULT_FONT when it has no entry.
C11_TypefacePerCharacter ==
    \A k \in DrawOps : \A c \in DrawnChars(k) :
        FontAt(k) = (IF c \in DOMAIN SPECIAL_CHARS_FONT_MAP
                     THEN SPECIAL_CHARS_FONT_MAP[c]
                     ELSE DEFAULT_FONT)

\* the string a drawString hands over
DrawnLength(k) ==
    LET r == canvas[code[k].arg]
    IN  IF "line" \in DOMAIN r THEN Len(r.line) ELSE 1

\* the font size in effect at position k
SizeAt(k) ==
    LET sets == { j \in 1..(k - 1) : code[j].op = "setFont" }
    IN  code[CHOOSE j \in sets : \A h \in sets : h <= j].arg.size

\* C12: with USE_BOLD on, once a layout function has returned, every drawString
\* it made is of one character, comes right after the switch to fill-and-stroke
\* (stroke width font_size * BOLD_WIDTH_RATIO) and is followed at once by the
\* switch back to fill-only.
C12_BoldWrapsEachCharacter ==
    (USE_BOLD /\ pc = "done") =>
        \A k \in DrawOps :
            /\ DrawnLength(k) = 1
            /\ k > 3 /\ k < Len(code)
            /\ code[k - 3].op = "setLineWidth"
            /\ code[k - 3].arg = Mul(SizeAt(k), BOLD_WIDTH_RATIO)
            /\ code[k - 1].op = "Tr" /\ code[k - 1].arg = 2
            /\ code[k + 1].op = "Tr" /\ code[k + 1].arg = 0

-----------------------------------------------------------------------------
(* Centered horizontal text. *)

InCentered == args.fn = "draw_centered_horizontal_text_with_wrap"

\* C13: draw_centered_horizontal_text_with_wrap draws line i, of rendered width
\* Wd, with its left edge at exactly x - Wd / 2 and at height
\* y - i * line_height: each line is centered on x by its own width alone.
C13_CenteredLinePosition ==
    InCentered =>
        \A n \in 1..Len(canvas) :
            LET r == canvas[n]
                Wd == string_width(r.line, args.font_size)
            IN  /\ r.idx = n - 1
                /\ r.line = lines[n]
                /\ 2 * r.x = 2 * args.x - Wd
                /\ r.y = args.y - (n - 1) * args.line_height

\* two lines of different widths have been drawn, so at different left edges
C13_Witness ==
    /\ InCentered
    /\ pc = "done"
    /\ Len(canvas) >= 2
    /\ string_width(canvas[1].line, args.font_size)
         # string_width(canvas[2].line, args.font_size)
    /\ canvas[1].x # canvas[2].x
    /\ canvas[1].x < args.x

-----------------------------------------------------------------------------
(* Anchor of a wrap-dependent field. *)

Min(a, b) == IF a <= b THEN a ELSE b

\* C14: for 釈文 and コメント, draw_content_blocks starts the field at
\* x_options[min(k, n - 1)] + x_offset (0-based), k the wrap count of the value
\* and n the number of candidate anchors, and the anchor chosen never
\* decreases as k grows.
C14_AnchorByWrapCount ==
    (args.fn = "draw_content_blocks" /\ pc = "done") =>
        LET x_options == COORDINATES[args.column].x
            n == Len(x_options)
            k == calculate_wrap_count(args.value, COORDINATES[args.column].max_chars)
        IN  /\ ret = x_options[Min(k, n - 1) + 1] + args.x_offset
            /\ \A k1 \in 0..(MaxLen + 1) : \A k2 \in k1..(MaxLen + 1) :
                   wrap_anchor(x_options, k1) <= wrap_anchor(x_options, k2)

\* a value with as many wrapped columns as there are anchors, or more, placed
\* as the second record of a page: it starts at the last anchor, to the right
\* of the first
C14_Witness ==
    /\ args.fn = "draw_content_blocks"
    /\ pc = "done"
    /\ args.x_offset = OFFSET_X
    /\ calculate_wrap_count(args.value, COORDINATES[args.column].max_chars)
         >= Len(COORDINATES[args.column].x)
    /\ ret = COORDINATES[args.column].x[Len(COORDINATES[args.column].x)] + OFFSET_X
    /\ ret > COORDINATES[args.column].x[1] + OFFSET_X

-----------------------------------------------------------------------------
(* Full-width conversion. *)

\* the printable ASCII characters, space included, and the half-width katakana
IsHalfWidth(c) == c \in 32..126 \/ c \in 65377..65439

\* C18: to_full_width maps 0x21..0x7E to the code point 0xFEE0 higher, the
\* space to U+3000 and half-width katakana to full-width, and leaves every
\* other character as it is; its result holds no printable ASCII and no
\* half-width katakana, and converting the result again changes nothing.
C18_ToFullWidth ==
    (args.fn = "to_full_width" /\ pc = "done") =>
        /\ ret = to_full_width(args.text)
        /\ \A k \in 1..Len(ret) : ~IsHalfWidth(ret[k])
        /\ to_full_width(ret) = ret
        /\ \A c \in WidthChars :
              to_full_width(<<c>>) =
                  IF c \in 33..126 THEN <<c + 65248>>
                  ELSE IF c = 32 THEN <<12288>>
                  ELSE IF c \in 65377..65439 THEN <<NFKC_HALFWIDTH[c]>>
                  ELSE <<c>>
        /\ (\A k \in 1..Len(args.text) : ~IsHalfWidth(args.text[k]))
              => ret = args.text

\* a text with a space, an ASCII letter and a half-width katakana has been
\* converted
C18_Witness ==
    /\ args.fn = "to_full_width"
    /\ pc = "done"
    /\ args.text = <<65, 32, 65398>>
    /\ ret = <<65313, 12288, 12459>>

-----------------------------------------------------------------------------
(* preprocess_data. *)

InPreprocess == args.fn = "preprocess_data"

\* the table the current run started from, empty cells filled: the CSV table
\* for the first run, the table the first run returned for the second
RunInput ==
    IF run = 0
    THEN [ k \in 1..Len(args.data) |->
             [ c \in DOMAIN args.data[k] |-> fillna(args.data[k][c]) ] ]
    ELSE ret

\* the cell of a （臨書） / （創作） pair that the work type of the row selects
Variant(row, column) ==
    IF Get(row, "sakuhin_keisiki") = RIN
    THEN row[column \o "_rinsyo"]
    ELSE row[column \o "_sousaku"]

\* C15: when format_df has gone through the table, 釈文, 作品名 and コメント of
\* every row are that row's （臨書） variants if its 作品形式 is "臨" and its
\* （創作） variants for any other value, the empty one included; while the loop
\* runs, the rows already visited hold their final values.
C15_VariantsByWorkType ==
    (InPreprocess /\ pc = "format_df") =>
        \A k \in 1..i :
            /\ data[k].syakubun = Variant(RunInput[k], "syakubun")
            /\ data[k].sakuhinmei = Variant(RunInput[k], "sakuhinmei")
            /\ data[k].komento = Variant(RunInput[k], "komento")

\* a table of two rows, the first a 臨 work and the second not, has been
\* through format_df: each row holds its own variants
C15_Witness ==
    /\ InPreprocess
    /\ run = 0
    /\ pc = "format_df"
    /\ i = 2
    /\ args.data[1].sakuhin_keisiki = RIN
    /\ args.data[2].sakuhin_keisiki = NaN
    /\ data[1].syakubun = << 12354 >>
    /\ data[2].syakubun = << 12356, 12356 >>
    /\ data[1].komento = << 12358 >>
    /\ data[2].sakuhinmei = << 26757, 26757 >>

\* C16: 作品情報（法帖解説） is 「work」 when the author is "無し", whatever the work
\* type; else author「work」 when the work type is "臨"; else empty.  Author
\* "無し" and work "桜" give 「桜」; type "臨", author "山田" and work "桜" give
\* 山田「桜」.
C16_WorkInfoForExplanation ==
    (InPreprocess /\ run = 0 /\ pc = "gakubu_gakunen") =>
        \A k \in 1..Len(data) :
            LET author == Get(data[k], "sakusyamei")
                type == Get(data[k], "sakuhin_keisiki")
                work == data[k].sakuhinmei
                info == data[k].sakuhin_joho_hojo
            IN  /\ author = NASI => info = << 12300 >> \o work \o << 12301 >>
                /\ (author # NASI /\ type = RIN)
                     => info = author \o << 12300 >> \o work \o << 12301 >>
                /\ (author # NASI /\ type # RIN) => info = << >>
                /\ (author = NASI /\ work = << 26716 >>)
                     => info = << 12300, 26716, 12301 >>
                /\ (author = YAMADA /\ work = << 26716 >> /\ type = RIN)
                     => info = << 23665, 30000, 12300, 26716, 12301 >>

\* the two examples at once: a 臨 work "桜" of author "山田" in the first row,
\* and a work of author "無し" that is not a 臨 work in the second
C16_Witness ==
    /\ InPreprocess
    /\ run = 0
    /\ pc = "gakubu_gakunen"
    /\ Len(data) = 2
    /\ data[1].sakuhin_keisiki = RIN
    /\ data[1].sakusyamei = YAMADA
    /\ data[1].sakuhin_joho_hojo = << 23665, 30000, 12300, 26716, 12301 >>
    /\ data[2].sakuhin_keisiki = SOU
    /\ data[2].sakusyamei = NASI
    /\ data[2].sakuhin_joho_hojo = << 12300, 26757, 26757, 12301 >>

\* C17: 作品情報 has one of three forms, chosen by the author alone: creation
\* type, ideographic space, 「work」 for a blank author; work type, ideographic
\* space, 「work」 for the author "無し"; work type, ideographic space, author,
\* ideographic space, 「work」 for any other author.  (作品情報 is made when the
\* table has the 作品形式 column.)
C17_WorkInfoByAuthor ==
    (InPreprocess /\ run = 0 /\ pc = "hurigana"
       /\ "sakuhin_keisiki" \in Columns(args.data)) =>
        \A k \in 1..Len(data) :
            LET in == RunInput[k]
                author == Get(in, "sakusyamei")
                work == << 12300 >> \o Variant(in, "sakuhinmei") \o << 12301 >>
                info == data[k].sakuhin_joho
            IN  /\ author = << >>
                     => info = Get(in, "sousaku_no_syurui") \o << 12288 >> \o work
                /\ author = NASI
                     => info = in.sakuhin_keisiki \o << 12288 >> \o work
                /\ (author # << >> /\ author # NASI)
                     => info = in.sakuhin_keisiki \o << 12288 >> \o author
                               \o << 12288 >> \o work

\* a blank author in the first row, a named one in the second: the first
\* 作品情報 starts with the creation type, the second holds the author
C17_Witness ==
    /\ InPreprocess
    /\ run = 0
    /\ pc = "hurigana"
    /\ Len(data) = 2
    /\ args.data[1].sakusyamei = NaN
    /\ args.data[1].sakuhin_keisiki = SOU
    /\ data[1].sakuhin_joho = << 20206, 12288, 12300, 26757, 12301 >>
    /\ args.data[2].sakusyamei = YAMADA
    /\ data[2].sakuhin_joho
         = << 33256, 12288, 23665, 30000, 12288, 12300, 26716, 26716, 12301 >>
    /\ "sakusyamei" \notin DOMAIN data[1]

\* C19: when preprocess_data has run again on the table it returned, 釈文,
\* コメント and 氏名 of every row are what they were after the first run.
C19_SecondRunKeepsCopies ==
    (InPreprocess /\ run = 1 /\ pc = "return") =>
        \A k \in 1..Len(data) :
            /\ data[k].syakubun = ret[k].syakubun
            /\ data[k].komento = ret[k].komento
            /\ data[k].simei = ret[k].simei

\* the row of the table given to preprocess_data with every absent column
\* added, holding the empty string
WithEmptyColumns(row) ==
    [ c \in INPUT_COLUMNS |-> IF c \in DOMAIN row THEN fillna(row[c]) ELSE << >> ]

\* C22: preprocess_data never fails on a table that lacks input columns, and
\* the ふりがな, 再提出 and 作品情報（法帖解説） it returns are those computed
\* from the table with the absent columns holding the empty string.
C22_AbsentColumnsAsEmpty ==
    (InPreprocess /\ run = 0) =>
        /\ pc # "raised"
        /\ pc = "return" =>
             \A k \in 1..Len(data) :
                LET full == WithEmptyColumns(args.data[k])
                IN  /\ data[k].hurigana = hurigana(full)
                    /\ data[k].saiteisyutu = resubmission(full)
                    /\ data[k].sakuhin_joho_hojo
                         = combine_work_name_for_exp(format_row(full))

-----------------------------------------------------------------------------
(* generate_combined_pdf. *)

InCombined == args.fn = "generate_combined_pdf"

\* the positions of the calls of one kind
CallsOf(op) == { k \in 1..Len(canvas) : canvas[k].op = op }

\* the page a call lands on, counted from 0: the page breaks made before it
PageOf(k) == Cardinality({ j \in CallsOf("showPage") : j < k })

\* C20: for N >= 1 records generate_combined_pdf makes one document of
\* ceil(N / 2) pages; every record is drawn once, in input order, record i on
\* page i \div 2 with x-offset 0 for an even i and OFFSET_X for an odd one; a
\* page break comes between two pairs, never before the first pair nor after
\* the last.
C20_TwoRecordsPerPage ==
    (InCombined /\ pc = "done" /\ args.len >= 1) =>
        LET draws == CallsOf("draw_content_blocks")
            breaks == CallsOf("showPage")
        IN  /\ Cardinality(CallsOf("save")) = 1
            /\ canvas[Len(canvas)].op = "save"
            /\ Cardinality(breaks) + 1 = (args.len + 1) \div 2
            /\ Cardinality(draws) = args.len
            /\ \A r \in 0..(args.len - 1) :
                 \E k \in draws :
                    /\ canvas[k].row = r
                    /\ Cardinality({ j \in draws : j < k }) = r
                    /\ PageOf(k) = r \div 2
                    /\ canvas[k].x_offset = IF r % 2 = 0 THEN 0 ELSE OFFSET_X
            /\ \A b \in breaks :
                 /\ \E k \in draws : k < b
                 /\ \E k \in draws : k > b
                 /\ canvas[b + 1].op = "draw_content_blocks"
                 /\ canvas[b + 1].row % 2 = 0
                 /\ canvas[b - 1].op = "draw_content_blocks"
                 /\ canvas[b - 1].row = canvas[b + 1].row - 1

\* three records have been written: two pages, the third record alone on the
\* second
C20_Witness ==
    /\ InCombined
    /\ pc = "done"
    /\ args.len = 3
    /\ Cardinality(CallsOf("showPage")) = 1
    /\ canvas[4] = draw_block(2, 0)
    /\ PageOf(4) = 1
    /\ canvas[2] = draw_block(1, OFFSET_X)

-----------------------------------------------------------------------------
(* generate_individual_pdfs. *)

InIndividual == args.fn = "generate_individual_pdfs"

\* the paths of the documents written so far
SavedPaths == { canvas[k].path : k \in CallsOf("save") }

\* the record the document at a path holds: that of the last save to the path
HeldAt(path) ==
    LET saves == { k \in CallsOf("save") : canvas[k].path = path }
    IN  canvas[CHOOSE k \in saves : \A j \in saves : j <= k].row

\* C21: when generate_individual_pdfs has processed N records, N distinct
\* documents exist, and the document of every record still holds that record.
C21_OneDocumentPerRecord ==
    (InIndividual /\ pc = "done") =>
        /\ Cardinality(SavedPaths) = Len(args.rows)
        /\ \A r \in 0..(Len(args.rows) - 1) :
             HeldAt(safe_filename(args.rows[r + 1].simei,
                                  args.rows[r + 1].sakuhin_joho)) = r

\* the records whose document handle is open: created and not saved
OpenHandles ==
    IF InCombined
    THEN IF CallsOf("save") = {} THEN {-1} ELSE {}
    ELSE { canvas[k].row : k \in CallsOf("Canvas") }
         \ { canvas[k].row : k \in CallsOf("save") }

\* C23: on every exit of generate_combined_pdf and generate_individual_pdfs,
\* the normal return and the exit by an exception raised while a record is
\* drawn, every document handle that was opened has been saved.
C23_HandlesSavedOnEveryExit ==
    ((InCombined \/ InIndividual) /\ pc \in {"done", "raised"}) =>
        OpenHandles = {}

-----------------------------------------------------------------------------
(* main. *)

InMain == args.fn = "main"

\* the positions of the calls that create an output directory or document
OutputCalls ==
    CallsOf("makedirs") \cup CallsOf("generate_individual_pdfs")
    \cup CallsOf("generate_combined_pdf")

\* the input table could not be read: the last pd.read_csv raised
ReadFailed ==
    \E k \in CallsOf("read_csv") :
        /\ canvas[k].arg # "ok"
        /\ \A j \in CallsOf("read_csv") : j <= k

\* a font failed to register
FontFailed == \E k \in CallsOf("registerFont") : canvas[k].arg # "ok"

\* C24: in main every call that creates an output directory or document comes
\* after a pd.read_csv and a registration of the fonts that succeeded, and a
\* run in which the table cannot be read or a font fails to register ends with
\* the error shown to the operator and no output created.
C24_OutputAfterReadAndFonts ==
    InMain =>
        /\ \A k \in OutputCalls :
             /\ \E j \in CallsOf("read_csv") : j < k /\ canvas[j].arg = "ok"
             /\ \E j \in CallsOf("registerFont") : j < k /\ canvas[j].arg = "ok"
        /\ (pc \in {"done", "raised"} /\ (ReadFailed \/ FontFailed)) =>
             /\ CallsOf("showerror") # {}
             /\ OutputCalls = {}

-----------------------------------------------------------------------------
(* draw_vertical_text_with_wrap: column heads and the row counter. *)

\* the drawn character r is at row 0 of its column
AtColumnHead(r) == ~ r.is_hanging /\ r.char_count = 0

\* the column of the drawn character r was begun by the start of the text or
\* by a line break
ColumnBegunByText(r) == r.idx = 0 \/ args.text[r.idx] = "\n"

\* C25: draw_vertical_text_with_wrap never draws a line-leading-prohibited
\* character at row 0 of a column begun by automatic wrapping (an overflow or
\* the advance after a hanging character): a prohibited character at row 0 is
\* the first of the text or follows a line break.
C25_NoProhibitedAtWrappedColumnHead ==
    InVWrap =>
        \A k \in 1..Len(canvas) :
            (canvas[k].char \in LEADING_PROHIBITED_CHARS /\ AtColumnHead(canvas[k]))
                => ColumnBegunByText(canvas[k])

\* the regular (not hanging) characters drawn in column c, as positions
RegularIn(c) ==
    { k \in 1..Len(canvas) : canvas[k].col = c /\ ~ canvas[k].is_hanging }

\* the hanging characters drawn in column c, as positions
HangingIn(c) ==
    { k \in 1..Len(canvas) : canvas[k].col = c /\ canvas[k].is_hanging }

\* C26: in draw_vertical_text_with_wrap, after every processed character
\* 0 <= char_count <= max_chars_per_line; char_count counts the regular
\* characters drawn in the current column, so it is 0 right after every column
\* advance (a line break, an overflow, the advance after a hanging character);
\* and a column receives at most max_chars_per_line regular characters and at
\* most one hanging character.
C26_RowCounterWithinColumn ==
    (InVWrap /\ pc \in {"loop", "done"}) =>
        /\ 0 <= char_count
        /\ char_count <= args.max_chars_per_line
        /\ char_count = Cardinality(RegularIn(col))
        /\ \A k \in 1..Len(canvas) :
             canvas[k].char_count
               = Cardinality({ j \in RegularIn(canvas[k].col) : j < k })
        /\ \A c \in 0..col :
             /\ Cardinality(RegularIn(c)) <= args.max_chars_per_line
             /\ Cardinality(HangingIn(c)) <= 1

\* C26 witness: a column has taken its two regular characters and a hanging
\* one, and the character after them has been drawn in the next column.
C26_Witness ==
    /\ InVWrap
    /\ pc = "done"
    /\ args.max_chars_per_line = 2
    /\ Cardinality(RegularIn(0)) = 2
    /\ Cardinality(HangingIn(0)) = 1
    /\ col = 1
    /\ char_count = 1

-----------------------------------------------------------------------------
(* The text render mode. *)

\* the six layout functions
LayoutFunctions ==
    { "draw_name_and_furigana", "draw_vertical_text", "draw_vertical_text_with_wrap",
      "draw_horizontal_text", "draw_horizontal_text_with_wrap",
      "draw_centered_horizontal_text_with_wrap" }

\* the text render mode in effect at position k of the operator stream: that
\* of the last Tr before it, fill-only (0) when there is none
ModeAt(k) ==
    LET modes == { j \in 1..(k - 1) : code[j].op = "Tr" }
    IN  IF modes = {} THEN 0
        ELSE code[CHOOSE j \in modes : \A h \in modes : h <= j].arg

\* C29: with USE_BOLD on, every layout function makes every drawString while
\* the text render mode is fill-and-stroke (2), and once it has returned, for
\* any text, the empty one included, the render mode is fill-only (0).
C29_BoldModeDoesNotLeak ==
    (USE_BOLD /\ args.fn \in LayoutFunctions) =>
        /\ Cardinality(DrawOps) = Len(canvas)
        /\ \A k \in DrawOps : ModeAt(k) = 2
        /\ pc = "done" => ModeAt(Len(code) + 1) = 0

\* C29 witness: draw_horizontal_text has drawn a text of two characters in
\* fill-and-stroke mode and has returned.
C29_Witness ==
    /\ USE_BOLD
    /\ args.fn = "draw_horizontal_text"
    /\ pc = "done"
    /\ Len(args.text) = 2
    /\ DrawOps # {}
    /\ \E k \in 1..Len(code) : code[k].op = "Tr" /\ code[k].arg = 2

-----------------------------------------------------------------------------
(* The line pitch of the horizontal wrapped fields. *)

\* the field of COORDINATES a horizontal wrapped call lays out: 臨書解説 by
\* draw_horizontal_text_with_wrap, 作品情報（法帖解説） by the centered function
HorizontalField ==
    IF InCentered THEN COORDINATES.sakuhin_joho_hojo ELSE COORDINATES.rinsyo_kaisetu

====
